---- MODULE Spec2Model ----
(***************************************************************************)
(* Model of the intrusive red-black tree of src/rbtree/rbtree_template.h   *)
(* (unique-key instantiation, KEY_TYPE int, KEY_IS_STRICTLY_LESS(a,b) =    *)
(* a < b).  Node records live in caller-owned memory: a node pointer is an *)
(* even address, NULL is 0, and the parent pointer and the colour bit      *)
(* share one word, as in the source.                                       *)
(***************************************************************************)
EXTENDS Integers, Sequences, FiniteSets, TLC

\* Number of node records the caller owns.
MaxNodes == 6

NULL == 0

\* Addresses of the caller's node records (alignment >= 2: bit 0 is free).
Nodes == {2 * i : i \in 1..MaxNodes}

\* The key the caller stores in the record at address n (node_init(n, KeyOf(n))).
KeyOf(n) == 10 * (n \div 2)

VARIABLES
    rootptr,    \* *rootptr_ptr: the tree handle
    mem,        \* the node records: key, __parent_ptr_with_color_bit, child_ptrs
    fault,      \* "" or the assertion / null dereference an operation died on
    linked,     \* history: nodes inserted and not yet deleted
    last,       \* history: the last completed call, its argument and return value
    writer,     \* the stores a running insert_node / delete_node has yet to make
    readers,    \* the queries that are running, each at some node of its descent
    fqueue,     \* the ring-buffer queue: the pointer create returned and the struct at it
    fhashtable, \* the robin-hood hashtable: likewise
    fpqueue,    \* the priority queue: likewise
    held        \* history: what the calls so far have put into the containers

vars == <<rootptr, mem, fault, linked, last, writer, readers, fqueue, fhashtable, fpqueue, held>>

\* The fixed-capacity containers, which the tree never touches.
containers == <<fqueue, fhashtable, fpqueue, held>>

\* The tree an operation works on: handle, memory, the fault raised so far,
\* the steps the running call has taken (fixup cases entered, rotations done),
\* the stores it has made, for each pass of a fixup loop, how far from the
\* root the pass worked, and the internal calls it made, each with its
\* arguments and the tree it was made on.
Tree == [rootptr |-> rootptr, mem |-> mem, fault |-> fault, trace |-> <<>>,
         writes |-> <<>>, climb |-> <<>>, calls |-> <<>>]

\* The statements of a function that follow the point where the tree is t.
Then(t, F(_)) == F(t)

Raise(t, what) == IF t.fault = "" THEN [t EXCEPT !.fault = what] ELSE t

Log(t, step) == [t EXCEPT !.trace = Append(@, step)]

\* The stores of a call, each recorded in program order as it is made:
\* *rootptr_ptr = val, node->child_ptrs[dir] = val,
\* node->__parent_ptr_with_color_bit = val.
store_root(t, val) ==
    [t EXCEPT !.rootptr = val,
              !.writes = Append(@, [at |-> "root", node |-> NULL, dir |-> 0, val |-> val])]

store_child(t, node_ptr, dir, val) ==
    [t EXCEPT !.mem[node_ptr].child_ptrs[dir] = val,
              !.writes = Append(@, [at |-> "child", node |-> node_ptr, dir |-> dir, val |-> val])]

store_word(t, node_ptr, val) ==
    [t EXCEPT !.mem[node_ptr].parent_ptr_with_color_bit = val,
              !.writes = Append(@, [at |-> "word", node |-> node_ptr, dir |-> 0, val |-> val])]

KEY_IS_STRICTLY_LESS(a, b) == a < b

left_ptr(t, n) == t.mem[n].child_ptrs[0]

right_ptr(t, n) == t.mem[n].child_ptrs[1]

----------------------------------------------------------------------------
\* The packed parent/colour word.

ClearBit0(w) == w - (w % 2)

node_get_parent_ptr(t, node_ptr) == ClearBit0(t.mem[node_ptr].parent_ptr_with_color_bit)

node_is_black(t, node_ptr) == t.mem[node_ptr].parent_ptr_with_color_bit % 2 = 1

node_is_red(t, node_ptr) == ~node_is_black(t, node_ptr)

node_set_color_to_red(t, node_ptr) ==
    store_word(t, node_ptr, ClearBit0(t.mem[node_ptr].parent_ptr_with_color_bit))

node_set_color_to_black(t, node_ptr) ==
    store_word(t, node_ptr, ClearBit0(t.mem[node_ptr].parent_ptr_with_color_bit) + 1)

\* Mutant: the node keeps the colour it has.
node_keep_color(t, node_ptr, other_ptr) == t

node_set_color_to_color_of_other(t, node_ptr, other_ptr) ==
    LET is_black == t.mem[other_ptr].parent_ptr_with_color_bit % 2
    IN  store_word(t, node_ptr, ClearBit0(t.mem[node_ptr].parent_ptr_with_color_bit) + is_black)

\* Mutant: set_parent_ptr that stores the parent alone.
node_set_parent_ptr_drops_colour(t, node_ptr, parent_ptr) ==
    store_word(t, node_ptr, parent_ptr)

node_set_parent_ptr(t, node_ptr, parent_ptr) ==
    LET is_black == t.mem[node_ptr].parent_ptr_with_color_bit % 2
    IN  store_word(t, node_ptr, parent_ptr + is_black)

CHILD_DIR(t, node_ptr) ==
    IF node_ptr = left_ptr(t, node_get_parent_ptr(t, node_ptr)) THEN 0 ELSE 1

\* An internal function is entered with the arguments node_ptr and dir, or
\* returns node_ptr, on the tree as it stands at that moment.
Call(t, fn, node_ptr, dir) ==
    [t EXCEPT !.calls = Append(@, [fn |-> fn, at |-> "call", node |-> node_ptr, dir |-> dir,
                                   rootptr |-> t.rootptr, mem |-> t.mem])]

Return(t, fn, node_ptr) ==
    [t EXCEPT !.calls = Append(@, [fn |-> fn, at |-> "return", node |-> node_ptr, dir |-> 0,
                                   rootptr |-> t.rootptr, mem |-> t.mem])]

\* Parent links between node_ptr and the root; the walk gives up after hops.
RECURSIVE DepthOf(_, _, _)
DepthOf(t, node_ptr, hops) ==
    IF hops = 0 \/ node_get_parent_ptr(t, node_ptr) = NULL THEN 0
    ELSE 1 + DepthOf(t, node_get_parent_ptr(t, node_ptr), hops - 1)

\* A pass of a fixup loop starts with P as the parent it works under: every
\* entry into insert_fixup_loop and delete_fixup is made on Visit(t, P).
Visit(t, P) ==
    [t EXCEPT !.climb = Append(@, DepthOf(t, P, Cardinality(DOMAIN t.mem)))]

\* node_init on memory m: key stored, links cleared; set_parent_ptr keeps bit 0
\* of the word, so the colour bit is whatever the memory held.
node_init(m, node_ptr, k) ==
    [m EXCEPT ![node_ptr] = [key |-> k,
                             child_ptrs |-> [d \in {0, 1} |-> NULL],
                             parent_ptr_with_color_bit |->
                                 NULL + (m[node_ptr].parent_ptr_with_color_bit % 2)]]

----------------------------------------------------------------------------
\* Queries.

\* is_empty that looks at the root node's children instead of the root reference.
is_empty_of_children(t) ==
    t.rootptr = NULL \/ (left_ptr(t, t.rootptr) = NULL /\ right_ptr(t, t.rootptr) = NULL)

is_empty(t) == t.rootptr = NULL

\* search_loop with the greater-than test dropped: "not less" ends the descent.
RECURSIVE search_loop_no_greater_test(_, _, _)
search_loop_no_greater_test(t, node_ptr, k) ==
    IF node_ptr = NULL THEN NULL
    ELSE LET is_strictly_less == KEY_IS_STRICTLY_LESS(k, t.mem[node_ptr].key)
             is_equal         == ~is_strictly_less
         IN  IF is_equal THEN node_ptr
             ELSE search_loop_no_greater_test(t, left_ptr(t, node_ptr), k)

RECURSIVE search_loop(_, _, _)
search_loop(t, node_ptr, k) ==
    IF node_ptr = NULL THEN NULL
    ELSE LET is_strictly_less    == KEY_IS_STRICTLY_LESS(k, t.mem[node_ptr].key)
             is_strictly_greater == KEY_IS_STRICTLY_LESS(t.mem[node_ptr].key, k)
             is_equal            == ~is_strictly_less /\ ~is_strictly_greater
         IN  IF is_equal THEN node_ptr
             ELSE IF is_strictly_less THEN search_loop(t, left_ptr(t, node_ptr), k)
             ELSE search_loop(t, right_ptr(t, node_ptr), k)

search_node(t, k) == search_loop(t, t.rootptr, k)

RECURSIVE contains_loop(_, _, _)
contains_loop(t, node_ptr, k) ==
    IF node_ptr = NULL THEN FALSE
    ELSE LET is_strictly_less    == KEY_IS_STRICTLY_LESS(k, t.mem[node_ptr].key)
             is_strictly_greater == KEY_IS_STRICTLY_LESS(t.mem[node_ptr].key, k)
             is_equal            == ~is_strictly_less /\ ~is_strictly_greater
         IN  IF is_equal THEN TRUE
             ELSE IF is_strictly_less THEN contains_loop(t, left_ptr(t, node_ptr), k)
             ELSE contains_loop(t, right_ptr(t, node_ptr), k)

contains_key(t, k) == contains_loop(t, t.rootptr, k)

----------------------------------------------------------------------------
\* Rotation and transplant.

\* rotate_dir that leaves C's parent reference as it was.
rotate_dir_no_reparent(t, P, dir) ==
    LET G == node_get_parent_ptr(t, P)
        S == t.mem[P].child_ptrs[1 - dir]
    IN  IF t.fault # "" THEN t
        ELSE IF S = NULL THEN Raise(t, "rotate_dir: assert(S != NULL)")
        ELSE LET C  == t.mem[S].child_ptrs[dir]
                 t1 == store_child(Call(Log(t, "rotate"), "rotate_dir", P, dir), P, 1 - dir, C)
                 t3 == store_child(t1, S, dir, P)
                 t4 == node_set_parent_ptr(t3, P, S)
                 t5 == node_set_parent_ptr(t4, S, G)
             IN  Return(IF G # NULL
                        THEN store_child(t5, G, IF P = left_ptr(t5, G) THEN 0 ELSE 1, S)
                        ELSE store_root(t5, S),
                        "rotate_dir", S)

\* rotate_dir that also hands P's colour to S and colours P RED.
rotate_dir_recolours(t, P, dir) ==
    LET G == node_get_parent_ptr(t, P)
        S == t.mem[P].child_ptrs[1 - dir]
    IN  IF t.fault # "" THEN t
        ELSE IF S = NULL THEN Raise(t, "rotate_dir: assert(S != NULL)")
        ELSE LET C  == t.mem[S].child_ptrs[dir]
                 t1 == store_child(Call(Log(t, "rotate"), "rotate_dir", P, dir), P, 1 - dir, C)
                 t2 == IF C # NULL THEN node_set_parent_ptr(t1, C, P) ELSE t1
                 t3 == store_child(t2, S, dir, P)
                 t4 == node_set_parent_ptr(t3, P, S)
                 t5 == node_set_parent_ptr(t4, S, G)
                 t6 == node_set_color_to_red(node_set_color_to_color_of_other(t5, S, P), P)
             IN  Return(IF G # NULL
                        THEN store_child(t6, G, IF P = left_ptr(t6, G) THEN 0 ELSE 1, S)
                        ELSE store_root(t6, S),
                        "rotate_dir", S)

\* rotate_dir: S, the child of P opposite dir, takes P's place; P becomes S's
\* child on side dir and S's former child on side dir goes under P.
rotate_dir(t, P, dir) ==
    LET G == node_get_parent_ptr(t, P)
        S == t.mem[P].child_ptrs[1 - dir]
    IN  IF t.fault # "" THEN t
        ELSE IF S = NULL THEN Raise(t, "rotate_dir: assert(S != NULL)")
        ELSE LET C  == t.mem[S].child_ptrs[dir]
                 t1 == store_child(Call(Log(t, "rotate"), "rotate_dir", P, dir), P, 1 - dir, C)
                 t2 == IF C # NULL THEN node_set_parent_ptr(t1, C, P) ELSE t1
                 t3 == store_child(t2, S, dir, P)
                 t4 == node_set_parent_ptr(t3, P, S)
                 t5 == node_set_parent_ptr(t4, S, G)
             IN  Return(IF G # NULL
                        THEN store_child(t5, G, IF P = left_ptr(t5, G) THEN 0 ELSE 1, S)
                        ELSE store_root(t5, S),
                        "rotate_dir", S)

\* node_transplant: dest_node takes src_node's place under src_node's parent.
node_transplant(t, src_node, dest_node) ==
    LET src_node_parent_ptr == node_get_parent_ptr(t, src_node)
        t1 == IF src_node_parent_ptr = NULL
              THEN store_root(t, dest_node)
              ELSE store_child(t, src_node_parent_ptr, CHILD_DIR(t, src_node), dest_node)
    IN  IF dest_node # NULL
        THEN node_set_parent_ptr(t1, dest_node, src_node_parent_ptr)
        ELSE t1

----------------------------------------------------------------------------
\* Insertion.

\* insert_fixup_loop that returns after the red-uncle recolouring instead of
\* going round again at the grandparent.
insert_fixup_loop_once(t, N, P) ==
    IF node_is_black(t, P) THEN Log(t, "I_black_parent")
    ELSE LET G == node_get_parent_ptr(t, P) IN
         IF G = NULL THEN node_set_color_to_black(Log(t, "I_red_root_parent"), P)
         ELSE LET dir == CHILD_DIR(t, P)
                  U   == t.mem[G].child_ptrs[1 - dir]
              IN  IF U = NULL \/ node_is_black(t, U)
                  THEN LET zigzag == (N = t.mem[P].child_ptrs[1 - dir])
                           t0 == Log(t, "I_black_uncle")
                           t1 == IF zigzag THEN rotate_dir(t0, P, dir) ELSE t0
                           P1 == IF zigzag THEN t1.mem[G].child_ptrs[dir] ELSE P
                           t2 == node_set_color_to_black(t1, P1)
                           t3 == node_set_color_to_red(t2, G)
                       IN  rotate_dir(t3, G, 1 - dir)
                  ELSE LET t1 == node_set_color_to_black(Log(t, "I_red_uncle"), P)
                           t2 == node_set_color_to_black(t1, U)
                       IN  node_set_color_to_red(t2, G)

\* insert_fixup_loop whose black-uncle case forgets to colour the grandparent
\* RED before rotating it down.
RECURSIVE insert_fixup_loop_G_stays_black(_, _, _)
insert_fixup_loop_G_stays_black(t, N, P) ==
    IF node_is_black(t, P) THEN Log(t, "I_black_parent")
    ELSE LET G == node_get_parent_ptr(t, P) IN
         IF G = NULL THEN node_set_color_to_black(Log(t, "I_red_root_parent"), P)
         ELSE LET dir == CHILD_DIR(t, P)
                  U   == t.mem[G].child_ptrs[1 - dir]
              IN  IF U = NULL \/ node_is_black(t, U)
                  THEN LET zigzag == (N = t.mem[P].child_ptrs[1 - dir])
                           t0 == Log(t, "I_black_uncle")
                           t1 == IF zigzag THEN rotate_dir(t0, P, dir) ELSE t0
                           P1 == IF zigzag THEN t1.mem[G].child_ptrs[dir] ELSE P
                           t2 == node_set_color_to_black(t1, P1)
                       IN  rotate_dir(t2, G, 1 - dir)
                  ELSE LET t1 == node_set_color_to_black(Log(t, "I_red_uncle"), P)
                           t2 == node_set_color_to_black(t1, U)
                           t3 == node_set_color_to_red(t2, G)
                           N1 == G
                           P1 == node_get_parent_ptr(t3, N1)
                       IN  IF P1 # NULL THEN insert_fixup_loop_G_stays_black(t3, N1, P1)
                           ELSE t3

\* insert_fixup_loop that, after the rotation of the black-uncle case, goes
\* round again at the grandparent instead of returning.
RECURSIVE insert_fixup_loop_repeats_after_rotation(_, _, _)
insert_fixup_loop_repeats_after_rotation(t, N, P) ==
    IF node_is_black(t, P) THEN Log(t, "I_black_parent")
    ELSE LET G == node_get_parent_ptr(t, P) IN
         IF G = NULL THEN node_set_color_to_black(Log(t, "I_red_root_parent"), P)
         ELSE LET dir == CHILD_DIR(t, P)
                  U   == t.mem[G].child_ptrs[1 - dir]
              IN  IF U = NULL \/ node_is_black(t, U)
                  THEN LET zigzag == (N = t.mem[P].child_ptrs[1 - dir])
                           t0 == Log(t, "I_black_uncle")
                           t1 == IF zigzag THEN rotate_dir(t0, P, dir) ELSE t0
                           P1 == IF zigzag THEN t1.mem[G].child_ptrs[dir] ELSE P
                           t2 == node_set_color_to_black(t1, P1)
                           t3 == node_set_color_to_red(t2, G)
                           t4 == rotate_dir(t3, G, 1 - dir)
                           P2 == node_get_parent_ptr(t4, G)
                       IN  IF P2 # NULL
                           THEN insert_fixup_loop_repeats_after_rotation(
                                    Visit(Call(t4, "insert_fixup_loop", G, 0), P2), G, P2)
                           ELSE t4
                  ELSE LET t1 == node_set_color_to_black(Log(t, "I_red_uncle"), P)
                           t2 == node_set_color_to_black(t1, U)
                           t3 == node_set_color_to_red(t2, G)
                           N1 == G
                           P1 == node_get_parent_ptr(t3, N1)
                       IN  IF P1 # NULL
                           THEN insert_fixup_loop_repeats_after_rotation(
                                    Visit(Call(t3, "insert_fixup_loop", N1, 0), P1), N1, P1)
                           ELSE t3

\* One pass of the do-while loop of insert_fixup, with N the red node and P
\* its parent; the red-uncle case goes round again while P is present.
RECURSIVE insert_fixup_loop(_, _, _)
insert_fixup_loop(t, N, P) ==
    IF node_is_black(t, P) THEN Log(t, "I_black_parent")
    ELSE LET G == node_get_parent_ptr(t, P) IN
         IF G = NULL THEN node_set_color_to_black(Log(t, "I_red_root_parent"), P)
         ELSE LET dir == CHILD_DIR(t, P)
                  U   == t.mem[G].child_ptrs[1 - dir]
              IN  IF U = NULL \/ node_is_black(t, U)
                  THEN LET zigzag == (N = t.mem[P].child_ptrs[1 - dir])
                           t0 == Log(t, "I_black_uncle")
                           t1 == IF zigzag THEN rotate_dir(t0, P, dir) ELSE t0
                           P1 == IF zigzag THEN t1.mem[G].child_ptrs[dir] ELSE P
                           t2 == node_set_color_to_black(t1, P1)
                           t3 == node_set_color_to_red(t2, G)
                       IN  rotate_dir(t3, G, 1 - dir)
                  ELSE LET t1 == node_set_color_to_black(Log(t, "I_red_uncle"), P)
                           t2 == node_set_color_to_black(t1, U)
                           t3 == node_set_color_to_red(t2, G)
                           N1 == G
                           P1 == node_get_parent_ptr(t3, N1)
                       IN  IF P1 # NULL
                           THEN insert_fixup_loop(Visit(Call(t3, "insert_fixup_loop", N1, 0), P1),
                                                  N1, P1)
                           ELSE t3

\* insert_fixup that never rebalances.
insert_fixup_skipped(t, N) == t

insert_fixup(t, N) ==
    IF ~node_is_red(t, N) THEN Raise(t, "insert_fixup: assert(node_is_red(N))")
    ELSE IF N = t.rootptr THEN Raise(t, "insert_fixup: assert(N != root)")
    ELSE LET P == node_get_parent_ptr(t, N)
         IN  insert_fixup_loop(Visit(t, P), N, P)

\* The descent with its two branches exchanged.
RECURSIVE insert_descend_swapped(_, _, _, _)
insert_descend_swapped(t, parent_ptr, current_ptr, node_ptr) ==
    IF current_ptr = NULL THEN parent_ptr
    ELSE LET is_strictly_greater ==
                 KEY_IS_STRICTLY_LESS(t.mem[current_ptr].key, t.mem[node_ptr].key)
         IN  IF is_strictly_greater
             THEN insert_descend_swapped(t, current_ptr, left_ptr(t, current_ptr), node_ptr)
             ELSE insert_descend_swapped(t, current_ptr, right_ptr(t, current_ptr), node_ptr)

\* The descent that goes right when it meets an equal key.
RECURSIVE insert_descend_equal_goes_right(_, _, _, _)
insert_descend_equal_goes_right(t, parent_ptr, current_ptr, node_ptr) ==
    IF current_ptr = NULL THEN parent_ptr
    ELSE LET is_not_less ==
                 ~KEY_IS_STRICTLY_LESS(t.mem[node_ptr].key, t.mem[current_ptr].key)
         IN  IF is_not_less
             THEN insert_descend_equal_goes_right(t, current_ptr, right_ptr(t, current_ptr), node_ptr)
             ELSE insert_descend_equal_goes_right(t, current_ptr, left_ptr(t, current_ptr), node_ptr)

\* The descent of insert_node: the last node visited before falling off the tree.
RECURSIVE insert_descend(_, _, _, _)
insert_descend(t, parent_ptr, current_ptr, node_ptr) ==
    IF current_ptr = NULL THEN parent_ptr
    ELSE LET is_strictly_greater ==
                 KEY_IS_STRICTLY_LESS(t.mem[current_ptr].key, t.mem[node_ptr].key)
         IN  IF is_strictly_greater
             THEN insert_descend(t, current_ptr, right_ptr(t, current_ptr), node_ptr)
             ELSE insert_descend(t, current_ptr, left_ptr(t, current_ptr), node_ptr)

\* insert_node that links a node whose key equals its parent's on the right,
\* although the descent went left.
insert_node_equal_links_right(t, node_ptr) ==
    LET parent_ptr == insert_descend(t, NULL, t.rootptr, node_ptr)
        t1 == store_child(store_child(t, node_ptr, 1, NULL), node_ptr, 0, NULL)
        t2 == node_set_parent_ptr(t1, node_ptr, parent_ptr)
        t3 == node_set_color_to_red(t2, node_ptr)
    IN  IF parent_ptr = NULL
        THEN store_root(t3, node_ptr)
        ELSE LET dir == IF KEY_IS_STRICTLY_LESS(t3.mem[node_ptr].key, t3.mem[parent_ptr].key)
                        THEN 0 ELSE 1
                 t4  == store_child(t3, parent_ptr, dir, node_ptr)
             IN  insert_fixup(t4, node_ptr)

\* insert_node that links the node on the side opposite to the comparison.
insert_node_wrong_side(t, node_ptr) ==
    LET parent_ptr == insert_descend(t, NULL, t.rootptr, node_ptr)
        t1 == store_child(store_child(t, node_ptr, 1, NULL), node_ptr, 0, NULL)
        t2 == node_set_parent_ptr(t1, node_ptr, parent_ptr)
        t3 == node_set_color_to_red(t2, node_ptr)
    IN  IF parent_ptr = NULL
        THEN store_root(t3, node_ptr)
        ELSE LET dir == IF KEY_IS_STRICTLY_LESS(t3.mem[parent_ptr].key, t3.mem[node_ptr].key)
                        THEN 0 ELSE 1
                 t4  == store_child(t3, parent_ptr, dir, node_ptr)
             IN  insert_fixup(t4, node_ptr)

\* insert_node that leaves the new node BLACK when it links it.
insert_node_links_black(t, node_ptr) ==
    LET parent_ptr == insert_descend(t, NULL, t.rootptr, node_ptr)
        t1 == store_child(store_child(t, node_ptr, 1, NULL), node_ptr, 0, NULL)
        t2 == node_set_parent_ptr(t1, node_ptr, parent_ptr)
        t3 == node_set_color_to_black(t2, node_ptr)
    IN  IF parent_ptr = NULL
        THEN store_root(t3, node_ptr)
        ELSE LET dir == IF KEY_IS_STRICTLY_LESS(t3.mem[parent_ptr].key, t3.mem[node_ptr].key)
                        THEN 1 ELSE 0
                 t4  == store_child(t3, parent_ptr, dir, node_ptr)
             IN  Call(t4, "insert_fixup", node_ptr, dir)

\* Mutant: insert_node that does not colour the node before linking it.
insert_node_keeps_colour(t, node_ptr) ==
    LET parent_ptr == insert_descend(t, NULL, t.rootptr, node_ptr)
        t1 == store_child(store_child(t, node_ptr, 1, NULL), node_ptr, 0, NULL)
        t3 == node_set_parent_ptr(t1, node_ptr, parent_ptr)
    IN  IF parent_ptr = NULL
        THEN store_root(t3, node_ptr)
        ELSE LET dir == IF KEY_IS_STRICTLY_LESS(t3.mem[parent_ptr].key, t3.mem[node_ptr].key)
                        THEN 1 ELSE 0
                 t4  == store_child(t3, parent_ptr, dir, node_ptr)
             IN  insert_fixup(Call(t4, "insert_fixup", node_ptr, dir), node_ptr)

insert_node(t, node_ptr) ==
    LET parent_ptr == insert_descend(t, NULL, t.rootptr, node_ptr)
        t1 == store_child(store_child(t, node_ptr, 1, NULL), node_ptr, 0, NULL)
        t2 == node_set_parent_ptr(t1, node_ptr, parent_ptr)
        t3 == node_set_color_to_red(t2, node_ptr)
    IN  IF parent_ptr = NULL
        THEN store_root(t3, node_ptr)
        ELSE LET dir == IF KEY_IS_STRICTLY_LESS(t3.mem[parent_ptr].key, t3.mem[node_ptr].key)
                        THEN 1 ELSE 0
                 t4  == store_child(t3, parent_ptr, dir, node_ptr)
             IN  insert_fixup(Call(t4, "insert_fixup", node_ptr, dir), node_ptr)

\* insert_node without ALLOW_DUPLICATES, with no check of the key.
insert_node_unchecked(t, node_ptr) == insert_node(t, node_ptr)

\* insert_node without ALLOW_DUPLICATES: the assertion on the key comes first.
insert_node_checked(t, node_ptr) ==
    IF contains_key(t, t.mem[node_ptr].key)
    THEN Raise(t, "insert_node: assert(contains_key(rootptr_ptr, node_ptr->key) == false)")
    ELSE insert_node(t, node_ptr)

----------------------------------------------------------------------------
\* Deletion.

\* Case_6: distant nephew D is red.
Case_6(t, P, dir, S, D) ==
    LET t1 == rotate_dir(Log(t, "Case_6"), P, dir)
        t2 == node_set_color_to_color_of_other(t1, S, P)
        t3 == node_set_color_to_black(t2, P)
    IN  node_set_color_to_black(t3, D)

\* Mutant: the close-nephew-red case that rotates S toward dir.
Case_5_rotates_toward_dir(t, P, dir, S, C) ==
    LET t1 == rotate_dir(Log(t, "Case_5"), S, dir)
        t2 == node_set_color_to_red(t1, S)
        t3 == node_set_color_to_black(t2, C)
    IN  Case_6(t3, P, dir, C, S)

\* Case_5: close nephew C is red, distant nephew black or absent.
Case_5(t, P, dir, S, C) ==
    LET t1 == rotate_dir(Log(t, "Case_5"), S, 1 - dir)
        t2 == node_set_color_to_red(t1, S)
        t3 == node_set_color_to_black(t2, C)
    IN  Case_6(t3, P, dir, C, S)

\* Mutant: the red-parent case that also rotates P away from S.
Case_4_rotates(t, P, S) ==
    rotate_dir(node_set_color_to_black(node_set_color_to_red(Log(t, "Case_4"), S), P),
               P, IF left_ptr(t, P) = S THEN 1 ELSE 0)

\* Case_4: parent red, sibling and both nephews black.
Case_4(t, P, S) ==
    node_set_color_to_black(node_set_color_to_red(Log(t, "Case_4"), S), P)

\* Mutant: the red-sibling case that rotates and leaves P and S as coloured.
Case_3_keeps_colours(t, P, dir, S, C) ==
    LET t3 == rotate_dir(Log(t, "Case_3"), P, dir)
    IN  IF C = NULL THEN Raise(t3, "delete_fixup: Case_3 dereferences S == NULL")
        ELSE LET D1 == t3.mem[C].child_ptrs[1 - dir]
                 C1 == t3.mem[C].child_ptrs[dir]
             IN  IF D1 # NULL /\ node_is_red(t3, D1) THEN Case_6(t3, P, dir, C, D1)
                 ELSE IF C1 # NULL /\ node_is_red(t3, C1) THEN Case_5(t3, P, dir, C, C1)
                 ELSE Case_4(t3, P, C)

\* Mutant: the red-sibling case that takes P's child on side dir as the new
\* sibling.
Case_3_sibling_on_side_dir(t, P, dir, S, C) ==
    LET t1 == rotate_dir(Log(t, "Case_3"), P, dir)
        t2 == node_set_color_to_red(t1, P)
        t3 == node_set_color_to_black(t2, S)
        S1 == t.mem[P].child_ptrs[dir]
    IN  IF S1 = NULL THEN Raise(t3, "delete_fixup: Case_3 dereferences S == NULL")
        ELSE Case_4(t3, P, S1)

\* Case_3: sibling S is red; C, the close nephew, becomes the sibling.
Case_3(t, P, dir, S, C) ==
    LET t1 == rotate_dir(Log(t, "Case_3"), P, dir)
        t2 == node_set_color_to_red(t1, P)
        t3 == node_set_color_to_black(t2, S)
    IN  IF C = NULL THEN Raise(t3, "delete_fixup: Case_3 dereferences S == NULL")
        ELSE LET D1 == t3.mem[C].child_ptrs[1 - dir]
                 C1 == t3.mem[C].child_ptrs[dir]
             IN  IF D1 # NULL /\ node_is_red(t3, D1) THEN Case_6(t3, P, dir, C, D1)
                 ELSE IF C1 # NULL /\ node_is_red(t3, C1) THEN Case_5(t3, P, dir, C, C1)
                 ELSE Case_4(t3, P, C)

\* delete_fixup whose all-black case continues at the sibling, one level down,
\* instead of at P's parent.
RECURSIVE delete_fixup_moves_down(_, _, _)
delete_fixup_moves_down(t, P, dir) ==
    LET S == t.mem[P].child_ptrs[1 - dir] IN
    IF S = NULL THEN Raise(t, "delete_fixup: dereferences S == NULL")
    ELSE LET D == t.mem[S].child_ptrs[1 - dir]
             C == t.mem[S].child_ptrs[dir]
         IN  IF node_is_red(t, S) THEN Case_3(t, P, dir, S, C)
             ELSE IF D # NULL /\ node_is_red(t, D) THEN Case_6(t, P, dir, S, D)
             ELSE IF C # NULL /\ node_is_red(t, C) THEN Case_5(t, P, dir, S, C)
             ELSE IF node_is_red(t, P) THEN Case_4(t, P, S)
             ELSE LET t1 == node_set_color_to_red(Log(t, "D_move_up"), S)
                      P1 == node_get_parent_ptr(t1, P)
                  IN  IF P1 # NULL THEN delete_fixup_moves_down(Visit(t1, S), S, dir)
                      ELSE t1

\* One pass of the do-while loop of delete_fixup at P, whose side dir is one
\* black node short; the all-black case goes round again at P's parent.
RECURSIVE delete_fixup(_, _, _)
delete_fixup(t, P, dir) ==
    LET S == t.mem[P].child_ptrs[1 - dir] IN
    IF S = NULL THEN Raise(t, "delete_fixup: dereferences S == NULL")
    ELSE LET D == t.mem[S].child_ptrs[1 - dir]
             C == t.mem[S].child_ptrs[dir]
         IN  IF node_is_red(t, S) THEN Case_3(t, P, dir, S, C)
             ELSE IF D # NULL /\ node_is_red(t, D) THEN Case_6(t, P, dir, S, D)
             ELSE IF C # NULL /\ node_is_red(t, C) THEN Case_5(t, P, dir, S, C)
             ELSE IF node_is_red(t, P) THEN Case_4(t, P, S)
             ELSE LET t1 == node_set_color_to_red(Log(t, "D_move_up"), S)
                      N  == P
                      P1 == node_get_parent_ptr(t1, N)
                  IN  IF P1 # NULL THEN delete_fixup(Visit(t1, P1), P1, CHILD_DIR(t1, N))
                      ELSE t1

\* The successor walk that stops at the right child without going left.
leftmost_no_descent(t, successor_ptr) == successor_ptr

\* Leftmost node of the subtree at successor_ptr.
RECURSIVE leftmost(_, _)
leftmost(t, successor_ptr) ==
    IF left_ptr(t, successor_ptr) # NULL
    THEN leftmost(t, left_ptr(t, successor_ptr))
    ELSE successor_ptr

\* delete_node on a leaf that never runs the deletion fixup.
delete_leaf_no_fixup(t, node_ptr) ==
    node_transplant(Log(t, "leaf_detach"), node_ptr, NULL)

\* delete_node on a leaf that runs the deletion fixup for the other side of
\* the parent.
delete_leaf_fixup_other_side(t, node_ptr) ==
    IF node_ptr = t.rootptr \/ node_is_red(t, node_ptr)
    THEN node_transplant(Log(t, "leaf_detach"), node_ptr, NULL)
    ELSE LET parent_ptr == node_get_parent_ptr(t, node_ptr) IN
         IF parent_ptr = NULL
         THEN Raise(t, "delete_node: RBTREE_CHILD_DIR dereferences parent == NULL")
         ELSE LET dir == IF CHILD_DIR(t, node_ptr) = 1 THEN 0 ELSE 1
                  t1  == node_transplant(Log(t, "leaf_fixup"), node_ptr, NULL)
              IN  delete_fixup(Visit(Call(t1, "delete_fixup", parent_ptr, dir), parent_ptr),
                               parent_ptr, dir)

\* delete_node, no children: detach; a black non-root node leaves its side short.
delete_leaf(t, node_ptr) ==
    IF node_ptr = t.rootptr \/ node_is_red(t, node_ptr)
    THEN node_transplant(Log(t, "leaf_detach"), node_ptr, NULL)
    ELSE LET parent_ptr == node_get_parent_ptr(t, node_ptr) IN
         IF parent_ptr = NULL
         THEN Raise(t, "delete_node: RBTREE_CHILD_DIR dereferences parent == NULL")
         ELSE LET dir == IF CHILD_DIR(t, node_ptr) = 1 THEN 1 ELSE 0
                  t1  == node_transplant(Log(t, "leaf_fixup"), node_ptr, NULL)
              IN  delete_fixup(Visit(Call(t1, "delete_fixup", parent_ptr, dir), parent_ptr),
                               parent_ptr, dir)

\* delete_node on a node with one child that moves the child up with the
\* colour it has.
delete_one_child_keeps_colour(t, node_ptr) ==
    LET dir == IF left_ptr(t, node_ptr) = NULL THEN 1 ELSE 0
    IN  node_transplant(Log(t, "one_child"), node_ptr, t.mem[node_ptr].child_ptrs[dir])

\* delete_node, exactly one child: the red child is blackened and moves up.
delete_one_child(t, node_ptr) ==
    LET dir == IF left_ptr(t, node_ptr) = NULL THEN 1 ELSE 0
        c   == t.mem[node_ptr].child_ptrs[dir]
    IN  IF ~node_is_black(t, node_ptr)
        THEN Raise(t, "delete_node: assert(node_is_black(node_ptr))")
        ELSE IF ~node_is_red(t, c)
        THEN Raise(t, "delete_node: assert(node_is_red(child))")
        ELSE node_transplant(node_set_color_to_black(Log(t, "one_child"), c), node_ptr, c)

\* delete_node with two children done by copying: the successor's key is
\* stored in node_ptr and the successor is unlinked in its stead.
delete_two_children_copies_key(t, node_ptr) ==
    LET successor_ptr == leftmost(t, right_ptr(t, node_ptr))
        t1 == [t EXCEPT !.mem[node_ptr].key = t.mem[successor_ptr].key]
    IN  IF right_ptr(t1, successor_ptr) = NULL
        THEN delete_leaf(Log(t1, "successor_near"), successor_ptr)
        ELSE delete_one_child(Log(t1, "successor_near"), successor_ptr)

\* delete_node, two children: the in-order successor takes the node's place and colour.
\* Mutant: the two-children branch that never runs the fixup.
delete_two_children_no_fixup(t, node_ptr) ==
    LET successor_ptr             == leftmost(t, right_ptr(t, node_ptr))
        prev_successor_child_ptr  == right_ptr(t, successor_ptr)
        t3 == IF node_get_parent_ptr(t, successor_ptr) # node_ptr
              THEN LET t0 == Log(t, "successor_far")
                       t1 == node_transplant(t0, successor_ptr, right_ptr(t0, successor_ptr))
                       t2 == store_child(t1, successor_ptr, 1, right_ptr(t1, node_ptr))
                   IN  node_set_parent_ptr(t2, right_ptr(t2, node_ptr), successor_ptr)
              ELSE Log(t, "successor_near")
        t4 == node_transplant(t3, node_ptr, successor_ptr)
        t5 == store_child(t4, successor_ptr, 0, left_ptr(t4, node_ptr))
        t6 == node_set_parent_ptr(t5, left_ptr(t5, node_ptr), successor_ptr)
    IN  Then(node_set_color_to_color_of_other(t6, successor_ptr, node_ptr), LAMBDA t7 :
        IF prev_successor_child_ptr # NULL
        THEN node_set_color_to_black(Log(t7, "successor_child_black"), prev_successor_child_ptr)
        ELSE t7)

delete_two_children(t, node_ptr) ==
    LET successor_ptr             == leftmost(t, right_ptr(t, node_ptr))
        prev_successor_black      == node_is_black(t, successor_ptr)
        prev_successor_dir        == CHILD_DIR(t, successor_ptr)
        prev_successor_parent_ptr == node_get_parent_ptr(t, successor_ptr)
        prev_successor_child_ptr  == right_ptr(t, successor_ptr)
        t3 == IF node_get_parent_ptr(t, successor_ptr) # node_ptr
              THEN LET t0 == Log(t, "successor_far")
                       t1 == node_transplant(t0, successor_ptr, right_ptr(t0, successor_ptr))
                       t2 == store_child(t1, successor_ptr, 1, right_ptr(t1, node_ptr))
                   IN  node_set_parent_ptr(t2, right_ptr(t2, node_ptr), successor_ptr)
              ELSE Log(t, "successor_near")
        t4 == node_transplant(t3, node_ptr, successor_ptr)
        t5 == store_child(t4, successor_ptr, 0, left_ptr(t4, node_ptr))
        t6 == node_set_parent_ptr(t5, left_ptr(t5, node_ptr), successor_ptr)
    IN  Then(node_set_color_to_color_of_other(t6, successor_ptr, node_ptr), LAMBDA t7 :
        IF prev_successor_child_ptr # NULL
        THEN IF ~prev_successor_black
             THEN Raise(t7, "delete_node: assert(prev_successor_black)")
             ELSE IF ~node_is_red(t7, prev_successor_child_ptr)
             THEN Raise(t7, "delete_node: assert(node_is_red(prev_successor_child_ptr))")
             ELSE node_set_color_to_black(Log(t7, "successor_child_black"), prev_successor_child_ptr)
        ELSE IF prev_successor_child_ptr = NULL /\ prev_successor_black
        THEN LET actual_successor_ptr ==
                     IF prev_successor_parent_ptr = node_ptr
                     THEN successor_ptr ELSE prev_successor_parent_ptr
             IN  delete_fixup(Visit(Call(Log(t7, "successor_fixup"), "delete_fixup",
                                         actual_successor_ptr, prev_successor_dir),
                                    actual_successor_ptr),
                              actual_successor_ptr, prev_successor_dir)
        ELSE t7)

\* The reset that clears the child links only.
delete_reset_keeps_parent(t, node_ptr) ==
    store_child(store_child(t, node_ptr, 1, NULL), node_ptr, 0, NULL)

\* The node handed back: links cleared, colour bit kept.
delete_reset(t, node_ptr) ==
    LET t1 == store_child(store_child(t, node_ptr, 1, NULL), node_ptr, 0, NULL)
    IN  node_set_parent_ptr(t1, node_ptr, NULL)

\* delete_node: the tree afterwards; the call returns node_ptr.
delete_node(t, node_ptr) ==
    LET t1 == IF left_ptr(t, node_ptr) = NULL /\ right_ptr(t, node_ptr) = NULL
              THEN delete_leaf(t, node_ptr)
              ELSE IF left_ptr(t, node_ptr) = NULL \/ right_ptr(t, node_ptr) = NULL
              THEN delete_one_child(t, node_ptr)
              ELSE delete_two_children(t, node_ptr)
    IN  Then(t1, LAMBDA t2 : IF t2.fault # "" THEN t2 ELSE delete_reset(t2, node_ptr))

delete_node_ret(t, node_ptr) == node_ptr

----------------------------------------------------------------------------
\* Walks used to observe the tree; Depth bounds them on any memory contents.

Depth == MaxNodes + 1

\* Nodes met going down from n through child pointers, at most d levels.
RECURSIVE Subtree(_, _, _)
Subtree(t, n, d) ==
    IF n = NULL \/ d = 0 THEN {}
    ELSE {n} \cup Subtree(t, left_ptr(t, n), d - 1) \cup Subtree(t, right_ptr(t, n), d - 1)

Reachable(t) == Subtree(t, t.rootptr, Depth)

KeysIn(t) == {t.mem[n].key : n \in Reachable(t)}

\* In-order key sequence of the subtree at n.
RECURSIVE InOrder(_, _, _)
InOrder(t, n, d) ==
    IF n = NULL \/ d = 0 THEN <<>>
    ELSE InOrder(t, left_ptr(t, n), d - 1) \o <<t.mem[n].key>> \o InOrder(t, right_ptr(t, n), d - 1)

\* Nodes on the longest path from n down to a leaf.
RECURSIVE Height(_, _, _)
Height(t, n, d) ==
    IF n = NULL \/ d = 0 THEN 0
    ELSE LET hl == Height(t, left_ptr(t, n), d - 1)
             hr == Height(t, right_ptr(t, n), d - 1)
         IN  1 + (IF hl > hr THEN hl ELSE hr)

\* Black nodes on every path from n down to an absent child, n included;
\* -1 when two such paths disagree.
RECURSIVE BlackCount(_, _, _)
BlackCount(t, n, d) ==
    IF n = NULL \/ d = 0 THEN 0
    ELSE LET bl == BlackCount(t, left_ptr(t, n), d - 1)
             br == BlackCount(t, right_ptr(t, n), d - 1)
         IN  IF bl = -1 \/ br = -1 \/ bl # br THEN -1
             ELSE bl + (IF node_is_black(t, n) THEN 1 ELSE 0)

Pow2(e) == IF e = 0 THEN 1 ELSE 2 ^ e

OrderStrict(t) ==
    /\ \A n \in Reachable(t) :
          /\ \A m \in Subtree(t, left_ptr(t, n), Depth) :
                KEY_IS_STRICTLY_LESS(t.mem[m].key, t.mem[n].key)
          /\ \A m \in Subtree(t, right_ptr(t, n), Depth) :
                KEY_IS_STRICTLY_LESS(t.mem[n].key, t.mem[m].key)
    /\ LET io == InOrder(t, t.rootptr, Depth)
       IN  \A i \in 1..(Len(io) - 1) : KEY_IS_STRICTLY_LESS(io[i], io[i + 1])

RootBlack(t) == t.rootptr # NULL => node_is_black(t, t.rootptr)

NoRedRed(t) ==
    \A n \in Reachable(t) : node_is_red(t, n) =>
        \A d \in {0, 1} : LET c == t.mem[n].child_ptrs[d]
                          IN  c # NULL => node_is_black(t, c)

BlackHeightEqual(t) == \A n \in Reachable(t) : BlackCount(t, n, Depth) # -1

ParentsAgree(t) ==
    /\ t.rootptr # NULL => node_get_parent_ptr(t, t.rootptr) = NULL
    /\ \A n \in Reachable(t) \ {t.rootptr} :
          LET p == node_get_parent_ptr(t, n)
          IN  /\ p \in Reachable(t)
              /\ left_ptr(t, p) = n \/ right_ptr(t, p) = n
    /\ \A n \in Reachable(t) : \A d \in {0, 1} :
          LET c == t.mem[n].child_ptrs[d]
          IN  c # NULL => node_get_parent_ptr(t, c) = n

\* Invariants 2-5 of the specification's data model.
RedBlackValid(t) ==
    RootBlack(t) /\ NoRedRed(t) /\ BlackHeightEqual(t) /\ ParentsAgree(t)

\* Number of keys the queries are called with.
MaxProbe == 3

\* Keys the queries are called with: the keys of the first MaxProbe records
\* (or of all of them) and one key no record has.
ProbeKeys == {KeyOf(n) : n \in {m \in Nodes : m <= 2 * MaxProbe}} \cup {15}

----------------------------------------------------------------------------
\* The fixed-capacity containers: unsigned 32-bit arithmetic.  The fields are
\* counts and indices of at most capacity <= 2^31, so the sums of the code do
\* not wrap; the one difference that does, index - 1 at index 0, is reduced by
\* the mask it is and-ed with.

\* UINT32_MAX / 2.
UINT32_MAX_DIV_2 == 2147483647

\* x & y for y >= 0.  x may be negative: its two's-complement bits are those
\* of the uint32_t x mod 2^32 in every position of a y below 2^32.
RECURSIVE BitAnd(_, _)
BitAnd(x, y) ==
    IF x = 0 \/ y = 0 THEN 0
    ELSE (x % 2) * (y % 2) + 2 * BitAnd(x \div 2, y \div 2)

\* Number of leading zero bits of the 32-bit word x, x # 0.
RECURSIVE __builtin_clz(_)
__builtin_clz(x) == IF x = 0 THEN 32 ELSE __builtin_clz(x \div 2) - 1

\* IS_POW2(X): X != 0 && (X & (X - 1)) == 0.
IS_POW2(X) == X # 0 /\ BitAnd(X, X - 1) = 0

round_up_pow2_32(x) ==
    IF x = 1 THEN 1 ELSE 2^(32 - __builtin_clz(x - 1))

----------------------------------------------------------------------------
\* The ring-buffer queue (fqueue).  A queue is the pointer create returned
\* (ptr, NULL when it failed) and the struct at it.

\* Size of a value and offset of values[] in the struct: VALUE_TYPE int after
\* four uint32_t fields.
\* (UINT32_MAX - 16) / 4 = (UINT32_MAX / 2 - 8) / 2.
FQUEUE_CALC_SIZEOF_OVERFLOWS(capacity) == capacity > (UINT32_MAX_DIV_2 - 2 * 4) \div 2

\* No queue: create has not been called, or it returned NULL.
NoQueue == [ptr |-> NULL, begin_index |-> 0, end_index |-> 0, count |-> 0, capacity |-> 0,
            values |-> <<>>]

fqueue_init(self, pow2_capacity) ==
    [self EXCEPT !.begin_index = 0, !.end_index = 0, !.count = 0, !.capacity = pow2_capacity]

\* calloc(1, size): zeroed memory for a struct with capacity values, at address 1.
fqueue_calloc(capacity) ==
    [ptr |-> 1, begin_index |-> 0, end_index |-> 0, count |-> 0, capacity |-> 0,
     values |-> [i \in 0..(capacity - 1) |-> 0]]

fqueue_create(min_capacity) ==
    IF min_capacity = 0 \/ min_capacity - 1 > UINT32_MAX_DIV_2 THEN NoQueue
    ELSE IF FQUEUE_CALC_SIZEOF_OVERFLOWS(round_up_pow2_32(min_capacity)) THEN NoQueue
    ELSE fqueue_init(fqueue_calloc(round_up_pow2_32(min_capacity)),
                     round_up_pow2_32(min_capacity))

fqueue_is_empty(self) == self.count = 0

fqueue_is_full(self) == self.count = self.capacity

fqueue_at(self, index) ==
    self.values[BitAnd(self.begin_index + index, self.capacity - 1)]

fqueue_get_front(self) == self.values[self.begin_index]

fqueue_get_back(self) == self.values[BitAnd(self.end_index - 1, self.capacity - 1)]

\* Mutant: end_index is not masked after the increment.
fqueue_enqueue_no_wrap(self, value) ==
    [self EXCEPT !.values = [i \in DOMAIN self.values \cup {self.end_index} |->
                                IF i = self.end_index THEN value ELSE self.values[i]],
                 !.end_index = @ + 1,
                 !.count = @ + 1]

\* Mutant: count is not incremented.
fqueue_enqueue_no_count(self, value) ==
    [self EXCEPT !.values[self.end_index] = value,
                 !.end_index = BitAnd(@ + 1, self.capacity - 1)]

fqueue_enqueue(self, value) ==
    [self EXCEPT !.values[self.end_index] = value,
                 !.end_index = BitAnd(@ + 1, self.capacity - 1),
                 !.count = @ + 1]

\* The value dequeue returns.
fqueue_dequeue_ret(self) == self.values[self.begin_index]

fqueue_dequeue(self) ==
    [self EXCEPT !.begin_index = BitAnd(@ + 1, self.capacity - 1),
                 !.count = @ - 1]

fqueue_clear(self) ==
    [self EXCEPT !.count = 0, !.begin_index = 0, !.end_index = 0]

----------------------------------------------------------------------------
\* The robin-hood hashtable (fhashtable).  A table is the pointer create
\* returned and the struct at it; fault is "" or what a call on it ran into.

\* UINT32_MAX, held as the largest integer of the model: it is compared with
\* offsets only, and every offset a probe reaches is below it.
FHASHTABLE_EMPTY_SLOT_OFFSET == 2147483647

\* The macros the user of the template supplies: keys are integers, and the
\* hash sends many keys to the same slot.
KEY_IS_EQUAL(a, b) == a = b
HASH_FUNCTION(key) == key * key

\* Slots of three 32-bit fields after two uint32_t fields:
\* (UINT32_MAX - 8) / 12 = (UINT32_MAX / 2 - 4) / 6.
FHASHTABLE_CALC_SIZEOF_OVERFLOWS(capacity) == capacity > (UINT32_MAX_DIV_2 - 4) \div 6

\* No table: create has not been called, or it returned NULL.
NoTable == [ptr |-> NULL, count |-> 0, capacity |-> 0, slots |-> <<>>, fault |-> ""]

fhashtable_init(self, pow2_capacity) ==
    [self EXCEPT !.count = 0, !.capacity = pow2_capacity,
                 !.slots = [i \in 0..(pow2_capacity - 1) |->
                               [@[i] EXCEPT !.offset = FHASHTABLE_EMPTY_SLOT_OFFSET]]]

\* calloc(1, size): zeroed memory for a struct with capacity slots, at address 1.
fhashtable_calloc(capacity) ==
    [ptr |-> 1, count |-> 0, capacity |-> 0,
     slots |-> [i \in 0..(capacity - 1) |-> [offset |-> 0, key |-> 0, value |-> 0]],
     fault |-> ""]

fhashtable_create(min_capacity) ==
    IF min_capacity = 0 \/ min_capacity - 1 > UINT32_MAX_DIV_2 THEN NoTable
    ELSE IF FHASHTABLE_CALC_SIZEOF_OVERFLOWS(round_up_pow2_32(min_capacity)) THEN NoTable
    ELSE fhashtable_init(fhashtable_calloc(round_up_pow2_32(min_capacity)),
                         round_up_pow2_32(min_capacity))

fhashtable_is_empty(self) == self.count = 0

fhashtable_is_full(self) == self.count = self.capacity

\* The while loop of contains_key, at slot index after max_possible_offset steps.
RECURSIVE fhashtable_contains_loop(_, _, _, _)
fhashtable_contains_loop(self, key, index, max_possible_offset) ==
    IF ~(/\ self.slots[index].offset # FHASHTABLE_EMPTY_SLOT_OFFSET
         /\ max_possible_offset <= self.slots[index].offset)
    THEN FALSE
    ELSE IF KEY_IS_EQUAL(self.slots[index].key, key) THEN TRUE
    ELSE fhashtable_contains_loop(self, key, BitAnd(index + 1, self.capacity - 1),
                                  max_possible_offset + 1)

fhashtable_contains_key(self, key) ==
    fhashtable_contains_loop(self, key, BitAnd(HASH_FUNCTION(key), self.capacity - 1), 0)

\* The while loop of insert and the store after it: current_slot is carried
\* to slot index.
RECURSIVE fhashtable_insert_loop(_, _, _)
fhashtable_insert_loop(self, index, current_slot) ==
    IF self.slots[index].offset = FHASHTABLE_EMPTY_SLOT_OFFSET
    THEN [self EXCEPT !.slots[index] = current_slot, !.count = @ + 1]
    ELSE IF current_slot.offset > self.slots[index].offset
    THEN fhashtable_insert_loop([self EXCEPT !.slots[index] = current_slot],
                                BitAnd(index + 1, self.capacity - 1),
                                [self.slots[index] EXCEPT !.offset = @ + 1])
    ELSE fhashtable_insert_loop(self, BitAnd(index + 1, self.capacity - 1),
                                [current_slot EXCEPT !.offset = @ + 1])

fhashtable_insert(self, key, value) ==
    fhashtable_insert_loop(self, BitAnd(HASH_FUNCTION(key), self.capacity - 1),
                           [offset |-> 0, key |-> key, value |-> value])

\* The while loop of update and the store after it, probed slots counted.
\* Only the loop makes a slot empty, and it does not before an offset has
\* grown to FHASHTABLE_EMPTY_SLOT_OFFSET: when capacity slots have been probed
\* and none was empty, the loop goes on for at least 2^32 - capacity rounds,
\* which the model records as a fault, the table being as that round left it.
RECURSIVE fhashtable_update_loop(_, _, _, _)
fhashtable_update_loop(self, index, current_slot, probed) ==
    IF probed = self.capacity
    THEN [self EXCEPT !.fault = "update: no slot is empty, the probe goes round and round"]
    ELSE IF self.slots[index].offset = FHASHTABLE_EMPTY_SLOT_OFFSET
    THEN [self EXCEPT !.slots[index] = current_slot, !.count = @ + 1]
    ELSE IF /\ current_slot.offset = self.slots[index].offset
            /\ KEY_IS_EQUAL(current_slot.key, self.slots[index].key)
    THEN [self EXCEPT !.slots[index].value = current_slot.value]
    ELSE IF current_slot.offset > self.slots[index].offset
    THEN fhashtable_update_loop([self EXCEPT !.slots[index] = current_slot],
                                BitAnd(index + 1, self.capacity - 1),
                                [self.slots[index] EXCEPT !.offset = @ + 1], probed + 1)
    ELSE fhashtable_update_loop(self, BitAnd(index + 1, self.capacity - 1),
                                [current_slot EXCEPT !.offset = @ + 1], probed + 1)

fhashtable_update(self, key, value) ==
    fhashtable_update_loop(self, BitAnd(HASH_FUNCTION(key), self.capacity - 1),
                           [offset |-> 0, key |-> key, value |-> value], 0)

RECURSIVE fhashtable_backshift(_, _, _)
fhashtable_backshift(self, index_mask, index) ==
    IF ~(/\ self.slots[BitAnd(index + 1, index_mask)].offset # FHASHTABLE_EMPTY_SLOT_OFFSET
         /\ self.slots[BitAnd(index + 1, index_mask)].offset > 0)
    THEN self
    ELSE fhashtable_backshift(
             [self EXCEPT !.slots[index] =
                              [self.slots[BitAnd(index + 1, index_mask)] EXCEPT !.offset = @ - 1],
                          !.slots[BitAnd(index + 1, index_mask)].offset =
                              FHASHTABLE_EMPTY_SLOT_OFFSET],
             index_mask, BitAnd(index + 1, index_mask))

\* The while loop of delete: the table it leaves and the value it returns.
RECURSIVE fhashtable_delete_loop(_, _, _, _)
fhashtable_delete_loop(self, key, index, max_possible_offset) ==
    IF ~(/\ self.slots[index].offset # FHASHTABLE_EMPTY_SLOT_OFFSET
         /\ max_possible_offset <= self.slots[index].offset)
    THEN [self |-> self, ret |-> FALSE]
    ELSE IF ~KEY_IS_EQUAL(key, self.slots[index].key)
    THEN fhashtable_delete_loop(self, key, BitAnd(index + 1, self.capacity - 1),
                                max_possible_offset + 1)
    ELSE [self |-> fhashtable_backshift(
                       [self EXCEPT !.slots[index].offset = FHASHTABLE_EMPTY_SLOT_OFFSET,
                                    !.count = @ - 1],
                       self.capacity - 1, index),
          ret |-> TRUE]

fhashtable_delete(self, key) ==
    fhashtable_delete_loop(self, key, BitAnd(HASH_FUNCTION(key), self.capacity - 1), 0)

fhashtable_clear(self) ==
    [self EXCEPT !.slots = [i \in 0..(self.capacity - 1) |->
                               [@[i] EXCEPT !.offset = FHASHTABLE_EMPTY_SLOT_OFFSET]],
                 !.count = 0]

----------------------------------------------------------------------------
\* The priority queue (fpqueue): a binary max-heap in an array.

FPQUEUE_LEFT_CHILD(index) == 2 * index + 1
FPQUEUE_RIGHT_CHILD(index) == 2 * index + 2
FPQUEUE_PARENT(index) == (index - 1) \div 2

\* Elements of two 32-bit fields after two uint32_t fields:
\* (UINT32_MAX - 8) / 8 = (UINT32_MAX / 2 - 4) / 4.
FPQUEUE_CALC_SIZEOF_OVERFLOWS(capacity) == capacity > (UINT32_MAX_DIV_2 - 4) \div 4

\* No priority queue: create has not been called, or it returned NULL.
NoHeap == [ptr |-> NULL, count |-> 0, capacity |-> 0, elements |-> <<>>]

fpqueue_init(self, capacity) == [self EXCEPT !.count = 0, !.capacity = capacity]

\* calloc(1, size): zeroed memory for a struct with capacity elements, at address 1.
fpqueue_calloc(capacity) ==
    [ptr |-> 1, count |-> 0, capacity |-> 0,
     elements |-> [i \in 0..(capacity - 1) |-> [priority |-> 0, value |-> 0]]]

fpqueue_create(capacity) ==
    IF capacity = 0 \/ FPQUEUE_CALC_SIZEOF_OVERFLOWS(capacity) THEN NoHeap
    ELSE fpqueue_init(fpqueue_calloc(capacity), capacity)

fpqueue_is_empty(self) == self.count = 0

fpqueue_is_full(self) == self.count = self.capacity

fpqueue_get_max(self) == self.elements[0].value

\* elements[a] and elements[b] exchanged.
fpqueue_swap(self, a, b) ==
    [self EXCEPT !.elements[a] = self.elements[b], !.elements[b] = self.elements[a]]

RECURSIVE fpqueue_upheap(_, _)
fpqueue_upheap(self, index) ==
    IF ~(index > 0) THEN self
    ELSE IF self.elements[FPQUEUE_PARENT(index)].priority >= self.elements[index].priority
    THEN self
    ELSE fpqueue_upheap(fpqueue_swap(self, index, FPQUEUE_PARENT(index)), FPQUEUE_PARENT(index))

\* largest after the first if of downheap, and after the second.
fpqueue_largest_l(self, index) ==
    IF /\ FPQUEUE_LEFT_CHILD(index) < self.count
       /\ self.elements[FPQUEUE_LEFT_CHILD(index)].priority > self.elements[index].priority
    THEN FPQUEUE_LEFT_CHILD(index) ELSE index

fpqueue_largest(self, index) ==
    IF /\ FPQUEUE_RIGHT_CHILD(index) < self.count
       /\ self.elements[FPQUEUE_RIGHT_CHILD(index)].priority
              > self.elements[fpqueue_largest_l(self, index)].priority
    THEN FPQUEUE_RIGHT_CHILD(index) ELSE fpqueue_largest_l(self, index)

\* Mutant: the element sinks to its left child whenever that one is larger.
RECURSIVE fpqueue_downheap_left_first(_, _)
fpqueue_downheap_left_first(self, index) ==
    IF fpqueue_largest_l(self, index) = index THEN self
    ELSE fpqueue_downheap_left_first(fpqueue_swap(self, index, fpqueue_largest_l(self, index)),
                                     fpqueue_largest_l(self, index))

RECURSIVE fpqueue_downheap(_, _)
fpqueue_downheap(self, index) ==
    IF fpqueue_largest(self, index) = index THEN self
    ELSE fpqueue_downheap(fpqueue_swap(self, index, fpqueue_largest(self, index)),
                          fpqueue_largest(self, index))

\* The value pop_max returns.
fpqueue_pop_max_ret(self) == self.elements[0].value

fpqueue_pop_max(self) ==
    fpqueue_downheap([self EXCEPT !.elements[0] = self.elements[self.count - 1],
                                  !.count = @ - 1], 0)

fpqueue_push(self, value, priority) ==
    fpqueue_upheap([self EXCEPT !.elements[self.count] = [priority |-> priority, value |-> value],
                                !.count = @ + 1],
                   self.count)

fpqueue_clear(self) == [self EXCEPT !.count = 0]

\* held when no container exists.
NothingHeld == [in |-> "nothing"]

\* The caller has created no container.
NoContainers ==
    /\ fqueue = NoQueue
    /\ fhashtable = NoTable
    /\ fpqueue = NoHeap
    /\ held = NothingHeld

\* No insert_node or delete_node is running.
NoMutation == [call |-> "", pending |-> <<>>, stable |-> {}, trace |-> <<>>]

\* Reader 1 calls search_node, reader 2 calls contains_key.
Readers == {1, 2}

IdleReader == [pc |-> "idle", call |-> "", key |-> 0, node_ptr |-> NULL, ret |-> NULL,
               overlapped |-> FALSE, steady |-> FALSE,
               seen |-> [rootptr |-> NULL, mem |-> <<>>]]

NoCall == [op |-> "init", node |-> NULL, key |-> 0, ret |-> NULL,
           keys |-> {}, valid |-> TRUE, roundtrip |-> FALSE, trace |-> <<>>,
                climb |-> <<>>, calls |-> <<>>, writes |-> <<>>]

----------------------------------------------------------------------------
\* The state machine: a caller that owns MaxNodes records and one tree.

\* last: op, the call; node or key, its argument; ret, its return value; trace,
\* the steps it took.  An insert records keys and valid, the key set of the tree
\* before it and whether that tree satisfied the invariants; a delete that
\* directly follows the insert of the same node keeps them and sets roundtrip.

\* init(&rootptr), and node_init(n, KeyOf(n)) on every record; bit 0 of a
\* record's word is whatever the uninitialised memory held.
Init ==
    /\ rootptr = NULL
    /\ \E bits \in [Nodes -> {0, 1}] :
          LET raw == [n \in Nodes |-> [key |-> 0,
                                       child_ptrs |-> [d \in {0, 1} |-> NULL],
                                       parent_ptr_with_color_bit |-> bits[n]]]
          IN  mem = [n \in Nodes |-> node_init(raw, n, KeyOf(n))[n]]
    /\ fault = ""
    /\ linked = {}
    /\ last = NoCall
    /\ writer = NoMutation
    /\ readers = [r \in Readers |-> IdleReader]
    /\ NoContainers

\* A call returns: the tree is as the call left it, and last is the record of
\* the call with the steps it took.
Commit(t, call) ==
    /\ rootptr' = t.rootptr
    /\ mem' = t.mem
    /\ fault' = t.fault
    /\ last' = [call EXCEPT !.trace = t.trace, !.climb = t.climb, !.calls = t.calls,
                          !.writes = t.writes]

\* insert_node(&rootptr, n) with its preconditions: n is not in the tree and
\* (unique-key mode) its key is not present.
Insert(n) ==
    /\ fault = ""
    /\ n \notin linked
    /\ contains_key(Tree, mem[n].key) = FALSE
    /\ Commit(insert_node(Tree, n),
              [op |-> "insert", node |-> n, key |-> mem[n].key, ret |-> NULL,
               keys |-> KeysIn(Tree),
               valid |-> RedBlackValid(Tree) /\ OrderStrict(Tree),
               roundtrip |-> FALSE, trace |-> <<>>, climb |-> <<>>, calls |-> <<>>, writes |-> <<>>])
    /\ linked' = linked \cup {n}
    /\ UNCHANGED <<writer, readers>>
    /\ UNCHANGED containers

\* delete_node(&rootptr, n) with its precondition: n is linked into the tree.
Delete(n) ==
    /\ fault = ""
    /\ n \in linked
    /\ LET rt == last.op = "insert" /\ last.node = n
       IN  Commit(delete_node(Tree, n),
                  [op |-> "delete", node |-> n, key |-> mem[n].key,
                   ret |-> delete_node_ret(Tree, n),
                   keys |-> IF rt THEN last.keys ELSE {},
                   valid |-> IF rt THEN last.valid ELSE TRUE,
                   roundtrip |-> rt, trace |-> <<>>, climb |-> <<>>, calls |-> <<>>, writes |-> <<>>])
    /\ linked' = linked \ {n}
    /\ UNCHANGED <<writer, readers>>
    /\ UNCHANGED containers

Search(k) ==
    /\ fault = ""
    /\ last' = [op |-> "search", node |-> NULL, key |-> k, ret |-> search_node(Tree, k),
                keys |-> {}, valid |-> TRUE, roundtrip |-> FALSE, trace |-> <<>>,
                climb |-> <<>>, calls |-> <<>>, writes |-> <<>>]
    /\ UNCHANGED <<rootptr, mem, fault, linked, writer, readers>>
    /\ UNCHANGED containers

Contains(k) ==
    /\ fault = ""
    /\ last' = [op |-> "contains", node |-> NULL, key |-> k, ret |-> contains_key(Tree, k),
                keys |-> {}, valid |-> TRUE, roundtrip |-> FALSE, trace |-> <<>>,
                climb |-> <<>>, calls |-> <<>>, writes |-> <<>>]
    /\ UNCHANGED <<rootptr, mem, fault, linked, writer, readers>>
    /\ UNCHANGED containers

IsEmpty ==
    /\ fault = ""
    /\ last' = [op |-> "is_empty", node |-> NULL, key |-> 0, ret |-> is_empty(Tree),
                keys |-> {}, valid |-> TRUE, roundtrip |-> FALSE, trace |-> <<>>,
                climb |-> <<>>, calls |-> <<>>, writes |-> <<>>]
    /\ UNCHANGED <<rootptr, mem, fault, linked, writer, readers>>
    /\ UNCHANGED containers

Next ==
    \/ \E n \in Nodes : Insert(n)
    \/ \E n \in Nodes : Delete(n)
    \/ \E k \in ProbeKeys : Search(k)
    \/ \E k \in ProbeKeys : Contains(k)
    \/ IsEmpty

Spec == Init /\ [][Next]_vars

----------------------------------------------------------------------------
\* Properties.

Did(step) == \E i \in DOMAIN last.trace : last.trace[i] = step

Mutated == last.op \in {"insert", "delete"}

\* C1: unique-key mode: after any sequence of insert_node and delete_node
\* calls every linked node has only strictly smaller keys in its left subtree
\* and only strictly greater keys in its right subtree, and the in-order
\* traversal is strictly increasing.
C1_OrderInvariant == OrderStrict(Tree)

\* C1 witness: a delete that relinked a far successor and rotated has left a
\* tree of at least four nodes in which some node has two children.
C1_Witness ==
    /\ last.op = "delete" /\ Did("successor_far") /\ Did("rotate")
    /\ Cardinality(Reachable(Tree)) >= 4
    /\ \E n \in Reachable(Tree) : left_ptr(Tree, n) # NULL /\ right_ptr(Tree, n) # NULL

\* C2 as stated: after every completed insert_node or delete_node the root,
\* if present, is BLACK.
C2_RootBlack == Mutated => RootBlack(Tree)

\* C3: after every completed insert_node or delete_node no RED node has a
\* RED child.
C3_NoRedRed == Mutated => NoRedRed(Tree)

\* C3 witness: an insert went through the red-uncle recolouring and the tree
\* holds a RED node that has a child.
C3_Witness ==
    /\ last.op = "insert" /\ Did("I_red_uncle")
    /\ \E n \in Reachable(Tree) :
          node_is_red(Tree, n) /\ (left_ptr(Tree, n) # NULL \/ right_ptr(Tree, n) # NULL)

\* C4: after every completed insert_node or delete_node every path from any
\* node down to an absent child passes through the same number of BLACK nodes.
C4_BlackHeight == Mutated => BlackHeightEqual(Tree)

\* C4 witness: a delete of a black leaf ran the deletion fixup through the
\* red-sibling case, and the remaining tree has black-height two at the root.
C4_Witness ==
    /\ last.op = "delete" /\ Did("leaf_fixup") /\ Did("Case_3")
    /\ BlackCount(Tree, rootptr, Depth) >= 2

\* C5: after every completed insert_node or delete_node the root has no
\* parent, every other linked node is the left or right child of its parent,
\* and every present child's parent reference points back to its holder.
C5_ParentConsistency == Mutated => ParentsAgree(Tree)

\* C5 witness: a delete with two children ran the deletion fixup at the place
\* its successor left and rotated, and nodes below the root's children remain.
C5_Witness ==
    /\ last.op = "delete" /\ Did("successor_fixup") /\ Did("rotate")
    /\ Height(Tree, rootptr, Depth) >= 3

\* C6: contains_key(k) is true exactly when a node with key k has been
\* inserted and not yet deleted, for every key and for the call just answered.
C6_Membership ==
    /\ \A k \in ProbeKeys \cup {KeyOf(n) : n \in Nodes} :
          contains_key(Tree, k) <=> (\E n \in linked : mem[n].key = k)
    /\ last.op = "contains" => (last.ret <=> (\E n \in linked : mem[n].key = last.key))

\* C6 witness: contains_key has answered false for the key of a node that was
\* inserted and deleted again, while other nodes are linked.
C6_Witness ==
    /\ last.op = "contains" /\ last.ret = FALSE
    /\ \E n \in Nodes \ linked : mem[n].key = last.key
    /\ Cardinality(linked) >= 3

\* C7: a tree of n linked nodes has height h with 2^h <= (n+1)^2.
C7_HeightBound ==
    LET h == Height(Tree, rootptr, Depth)
        n == Cardinality(Reachable(Tree))
    IN  Pow2(h) <= (n + 1) * (n + 1)

\* C7 witness: an insert has left a tree of six nodes and height four.
C7_Witness ==
    /\ last.op = "insert"
    /\ Height(Tree, rootptr, Depth) = 4
    /\ Cardinality(Reachable(Tree)) = 6

\* C8 as stated: inserting a node whose key is absent into a valid tree and
\* then deleting that node leaves the same key set and a tree satisfying the
\* red-black invariants (root colour, no red-red, black-height, parents).
C8_RoundTrip ==
    (last.op = "delete" /\ last.roundtrip /\ last.valid) =>
        /\ KeysIn(Tree) = last.keys
        /\ OrderStrict(Tree)
        /\ RedBlackValid(Tree)

\* C9: delete_node on a linked node returns that node with left, right and
\* parent empty; the node is then not reachable from the root and no linked
\* node's child or parent reference points to it.
C9_DeleteDetaches ==
    last.op = "delete" =>
        /\ last.ret = last.node
        /\ left_ptr(Tree, last.node) = NULL
        /\ right_ptr(Tree, last.node) = NULL
        /\ node_get_parent_ptr(Tree, last.node) = NULL
        /\ last.node \notin Reachable(Tree)
        /\ \A m \in linked \cup Reachable(Tree) :
              /\ left_ptr(Tree, m) # last.node
              /\ right_ptr(Tree, m) # last.node
              /\ node_get_parent_ptr(Tree, m) # last.node

\* C9 witness: a node with two children has been deleted and its successor's
\* red child took the successor's place; at least three nodes stay linked.
C9_Witness ==
    /\ last.op = "delete" /\ Did("successor_child_black")
    /\ Cardinality(linked) >= 3

\* C10: search_node returns a linked node whose key compares equal to the
\* key, or empty when no linked node has an equal key; contains_key returns
\* true exactly when search_node returns a node.
C10_SearchResult ==
    /\ last.op = "search" =>
          IF last.ret = NULL
          THEN \A n \in Reachable(Tree) \cup linked :
                  KEY_IS_STRICTLY_LESS(mem[n].key, last.key)
                    \/ KEY_IS_STRICTLY_LESS(last.key, mem[n].key)
          ELSE /\ last.ret \in Reachable(Tree)
               /\ ~KEY_IS_STRICTLY_LESS(mem[last.ret].key, last.key)
               /\ ~KEY_IS_STRICTLY_LESS(last.key, mem[last.ret].key)
    /\ last.op = "contains" => (last.ret <=> (search_node(Tree, last.key) # NULL))

\* C10 witness: search_node has returned a node two levels below the root.
C10_Witness ==
    /\ last.op = "search" /\ last.ret # NULL /\ last.ret # rootptr
    /\ node_get_parent_ptr(Tree, last.ret) # rootptr

\* C11: is_empty is true right after init, and after any sequence of inserts
\* and deletes it is true exactly when every inserted node has been deleted,
\* both for the tree as it stands and for the call just answered.
C11_IsEmpty ==
    /\ last.op = "init" => is_empty(Tree)
    /\ is_empty(Tree) <=> (linked = {})
    /\ last.op = "is_empty" => (last.ret <=> (linked = {}))

\* C11 witness: the delete just completed removed the last linked node (its
\* children were cleared by the delete, so it had been inserted) and is_empty
\* holds of the tree.
C11_Witness ==
    /\ last.op = "delete" /\ Did("leaf_detach")
    /\ linked = {} /\ is_empty(Tree)

----------------------------------------------------------------------------
\* A caller that runs the ascending scenario: records with the keys 10..70 are
\* inserted in that order into an empty tree, then one of them is deleted (the
\* caller finds it with search_node), then contains_key is asked.

ScenarioKeys == <<10, 20, 30, 40, 50, 60, 70>>

ScenarioNodes == {2 * i : i \in 1..Len(ScenarioKeys)}

ScenarioProbe == {ScenarioKeys[i] : i \in 1..Len(ScenarioKeys)}

\* init(&rootptr), and node_init(n, key[n]) on every record of DOMAIN key.
InitRecords(key) ==
    /\ rootptr = NULL
    /\ \E bits \in [DOMAIN key -> {0, 1}] :
          LET raw == [n \in DOMAIN key |-> [key |-> 0,
                                            child_ptrs |-> [d \in {0, 1} |-> NULL],
                                            parent_ptr_with_color_bit |-> bits[n]]]
          IN  mem = [n \in DOMAIN key |-> node_init(raw, n, key[n])[n]]
    /\ fault = ""
    /\ linked = {}
    /\ last = NoCall
    /\ writer = NoMutation
    /\ readers = [r \in Readers |-> IdleReader]
    /\ NoContainers

InitScenario == InitRecords([n \in ScenarioNodes |-> ScenarioKeys[n \div 2]])

\* The next key of the scenario is inserted: the i-th insert happens when
\* exactly the first i-1 records are linked and nothing has been deleted.
InsertAscending ==
    \E i \in 1..Len(ScenarioKeys) :
        /\ last.op \in {"init", "insert"}
        /\ linked = {2 * j : j \in 1..(i - 1)}
        /\ Insert(2 * i)

\* After the last insert, the record holding key k is looked up and deleted.
DeleteFound(k) ==
    /\ last.op = "insert"
    /\ linked = ScenarioNodes
    /\ Delete(search_node(Tree, k))

\* contains_key is asked after the delete.
ContainsAfter(k) ==
    /\ last.op \in {"delete", "contains"}
    /\ Contains(k)

NextScenario ==
    \/ InsertAscending
    \/ \E k \in ScenarioProbe : DeleteFound(k)
    \/ \E k \in ScenarioProbe : ContainsAfter(k)

SpecScenario == InitScenario /\ [][NextScenario]_vars

\* C12: inserting 10, 20, 30 in that order into an empty tree leaves the node
\* with key 20 at the root, BLACK, with 10 as its RED left child and 30 as its
\* RED right child, and nothing else in the tree.
C12_ThreeAscending ==
    (last.op = "insert" /\ last.key = 30) =>
        /\ fault = ""
        /\ rootptr # NULL /\ mem[rootptr].key = 20 /\ node_is_black(Tree, rootptr)
        /\ left_ptr(Tree, rootptr) # NULL
        /\ mem[left_ptr(Tree, rootptr)].key = 10
        /\ node_is_red(Tree, left_ptr(Tree, rootptr))
        /\ right_ptr(Tree, rootptr) # NULL
        /\ mem[right_ptr(Tree, rootptr)].key = 30
        /\ node_is_red(Tree, right_ptr(Tree, rootptr))
        /\ InOrder(Tree, rootptr, Depth) = <<10, 20, 30>>

\* C12 witness: the third insert of the scenario has just run, and it was
\* settled by a rotation at the old root.
C12_Witness ==
    /\ last.op = "insert" /\ last.key = 30 /\ last.keys = {10, 20}
    /\ Did("I_black_uncle") /\ Did("rotate")

\* C13: after 10, 20, ..., 70 were inserted in that order and the node with key
\* 20 was deleted, the tree is at most 4 nodes high, contains_key(20) is false
\* and contains_key is true for each of the other six keys.
C13_DeleteTwenty ==
    (last.op \in {"delete", "contains"} /\ linked = ScenarioNodes \ {4}) =>
        /\ fault = ""
        /\ Height(Tree, rootptr, Depth) <= 4
        /\ \A k \in ScenarioProbe : contains_key(Tree, k) <=> (k # 20)
        /\ last.op = "delete" => (last.key = 20 /\ last.ret = 4)
        /\ last.op = "contains" => (last.ret <=> (last.key # 20))

\* C13 witness: the node holding 20 was just deleted from the seven-node tree;
\* it had two children, so its in-order successor took its place.
C13_Witness ==
    /\ last.op = "delete" /\ last.key = 20
    /\ linked = ScenarioNodes \ {4}
    /\ Did("successor_near") \/ Did("successor_far")
    /\ Cardinality(Reachable(Tree)) = 6

----------------------------------------------------------------------------
\* The tree built with ALLOW_DUPLICATES: the caller's records share keys and
\* insert_node has no key precondition.

\* Keys of the caller's records: two records hold 5, three hold 10, the rest 15.
DupKeyOf(n) == 5 * (1 + ((n \div 2) \div 3))

DupProbe == {DupKeyOf(n) : n \in Nodes}

InitDup == InitRecords([n \in Nodes |-> DupKeyOf(n)])

\* In-order sequence of the nodes of the subtree at n.
RECURSIVE InOrderNodes(_, _, _)
InOrderNodes(t, n, d) ==
    IF n = NULL \/ d = 0 THEN <<>>
    ELSE InOrderNodes(t, left_ptr(t, n), d - 1) \o <<n>> \o InOrderNodes(t, right_ptr(t, n), d - 1)

\* a stands before b in seq.
Before(seq, a, b) == \E i, j \in DOMAIN seq : i < j /\ seq[i] = a /\ seq[j] = b

\* left <= key <= right at every node.
OrderNonStrict(t) ==
    /\ \A n \in Reachable(t) :
          /\ \A m \in Subtree(t, left_ptr(t, n), Depth) :
                ~KEY_IS_STRICTLY_LESS(t.mem[n].key, t.mem[m].key)
          /\ \A m \in Subtree(t, right_ptr(t, n), Depth) :
                ~KEY_IS_STRICTLY_LESS(t.mem[m].key, t.mem[n].key)
    /\ LET io == InOrder(t, t.rootptr, Depth)
       IN  \A i \in 1..(Len(io) - 1) : ~KEY_IS_STRICTLY_LESS(io[i + 1], io[i])

\* insert_node(&rootptr, n) with ALLOW_DUPLICATES: n is not in the tree.
InsertDup(n) ==
    /\ fault = ""
    /\ n \notin linked
    /\ Commit(insert_node(Tree, n),
              [op |-> "insert", node |-> n, key |-> mem[n].key, ret |-> NULL,
               keys |-> KeysIn(Tree),
               valid |-> RedBlackValid(Tree) /\ OrderNonStrict(Tree),
               roundtrip |-> FALSE, trace |-> <<>>, climb |-> <<>>, calls |-> <<>>, writes |-> <<>>])
    /\ linked' = linked \cup {n}
    /\ UNCHANGED <<writer, readers>>
    /\ UNCHANGED containers

NextDup ==
    \/ \E n \in Nodes : InsertDup(n)
    \/ \E n \in Nodes : Delete(n)
    \/ \E k \in DupProbe : Contains(k)

SpecDup == InitDup /\ [][NextDup]_vars

\* Linked nodes other than n that hold the key of n.
EqualKeyed(n) == {m \in linked \ {n} : mem[m].key = mem[n].key}

\* C14 as stated: in duplicate-key mode a new duplicate is linked on the right
\* side of the equal-keyed nodes it meets, so it follows them in order.
C14_DuplicateRight ==
    (last.op = "insert" /\ last.key \in last.keys) =>
        \A m \in EqualKeyed(last.node) :
            Before(InOrderNodes(Tree, rootptr, Depth), m, last.node)

\* C14, amended: in duplicate-key mode the insert descent continues to the LEFT
\* when it meets an equal key, so a new duplicate is linked on the left side of
\* the equal-keyed nodes: it stands before every one of them in order.
C14_DuplicateLeft ==
    (last.op = "insert" /\ last.key \in last.keys) =>
        /\ fault = ""
        /\ last.node \in Reachable(Tree)
        /\ \A m \in EqualKeyed(last.node) :
              Before(InOrderNodes(Tree, rootptr, Depth), last.node, m)

\* C14 witness: a third record with the same key was just inserted, and the
\* insert rebalanced with a rotation.
C14_Witness ==
    /\ last.op = "insert" /\ last.key \in last.keys
    /\ Cardinality(EqualKeyed(last.node)) = 2
    /\ Did("rotate")

\* Number of positions of seq that hold k.
Occurrences(seq, k) == Cardinality({i \in DOMAIN seq : seq[i] = k})

\* C15: in duplicate-key mode the order invariant holds non-strictly after any
\* sequence of inserts and deletes; every key is listed in order once per linked
\* node that holds it (twice, adjacent, after two nodes with the same key were
\* inserted), and contains_key of such a key is true.
C15_DuplicateOrder ==
    LET io == InOrder(Tree, rootptr, Depth) IN
    /\ fault = ""
    /\ OrderNonStrict(Tree)
    /\ Reachable(Tree) = linked
    /\ \A k \in DupProbe :
          LET holders == {m \in linked : mem[m].key = k}
              at      == {i \in DOMAIN io : io[i] = k}
          IN  /\ Cardinality(at) = Cardinality(holders)
              /\ \A i, j \in at : \A x \in i..j : x \in at
              /\ contains_key(Tree, k) <=> (holders # {})
    /\ last.op = "contains" => (last.ret <=> (\E m \in linked : mem[m].key = last.key))

\* C15 witness: the second of two nodes with the same key was just inserted
\* next to a node with another key; the key is listed twice and found.
C15_Witness ==
    /\ last.op = "insert" /\ last.key \in last.keys
    /\ Occurrences(InOrder(Tree, rootptr, Depth), last.key) = 2
    /\ contains_key(Tree, last.key)
    /\ Cardinality(linked) >= 3

----------------------------------------------------------------------------
\* A caller of the unique-key build that may break the contract once: its
\* records share keys (as in DupKeyOf), and besides the proper calls it may
\* insert a record whose key is present or delete a record that is not linked.
\* Nothing is modelled after such a call.

\* The faults that are failed assertions of a debug build.
DebugAborts ==
    {"insert_node: assert(contains_key(rootptr_ptr, node_ptr->key) == false)",
     "insert_fixup: assert(node_is_red(N))",
     "insert_fixup: assert(N != root)",
     "rotate_dir: assert(S != NULL)",
     "delete_node: assert(node_is_black(node_ptr))",
     "delete_node: assert(node_is_red(child))",
     "delete_node: assert(prev_successor_black)",
     "delete_node: assert(node_is_red(prev_successor_child_ptr))"}

InContract == last.op \notin {"insert_present", "delete_unlinked"}

ProperInsert(n) == InContract /\ Insert(n)

ProperDelete(n) == InContract /\ Delete(n)

\* insert_node(&rootptr, n) with the key of n already in the tree.
InsertPresent(n) ==
    /\ InContract
    /\ fault = ""
    /\ n \notin linked
    /\ contains_key(Tree, mem[n].key) = TRUE
    /\ Commit(insert_node_checked(Tree, n),
              [op |-> "insert_present", node |-> n, key |-> mem[n].key,
               ret |-> NULL, keys |-> KeysIn(Tree), valid |-> TRUE,
               roundtrip |-> FALSE, trace |-> <<>>, climb |-> <<>>, calls |-> <<>>, writes |-> <<>>,
               before |-> [rootptr |-> rootptr, mem |-> mem]])
    /\ UNCHANGED <<linked, writer, readers>>
    /\ UNCHANGED containers

\* What delete_node can do with a node that is not in the tree.  Its links are
\* clear, so it is taken for a leaf.  A RED one passes for a detachable leaf and
\* node_transplant stores NULL through rootptr_ptr.  A BLACK one has
\* RBTREE_CHILD_DIR read through its NULL parent: the read traps, or it yields
\* some direction, node_transplant stores NULL through rootptr_ptr and
\* delete_fixup reads through P == NULL.
delete_unlinked_outcomes(t, node_ptr) ==
    {delete_node(t, node_ptr)} \cup
    IF node_is_red(t, node_ptr) THEN {}
    ELSE {Raise(node_transplant(t, node_ptr, NULL), "delete_fixup: dereferences P == NULL")}

\* delete_node(&rootptr, n) with n not linked: fresh from node_init, or
\* handed back by an earlier delete_node.
DeleteUnlinked(n) ==
    /\ InContract
    /\ fault = ""
    /\ n \notin linked
    /\ \E t \in delete_unlinked_outcomes(Tree, n) :
          Commit(t, [op |-> "delete_unlinked", node |-> n, key |-> mem[n].key,
                     ret |-> n, keys |-> KeysIn(Tree), valid |-> TRUE,
                     roundtrip |-> FALSE, trace |-> <<>>, climb |-> <<>>, calls |-> <<>>, writes |-> <<>>,
                     before |-> [rootptr |-> rootptr, mem |-> mem]])
    /\ UNCHANGED <<linked, writer, readers>>
    /\ UNCHANGED containers

NextMisuse ==
    \/ \E n \in Nodes : ProperInsert(n)
    \/ \E n \in Nodes : ProperDelete(n)
    \/ \E n \in Nodes : InsertPresent(n)
    \/ \E n \in Nodes : DeleteUnlinked(n)

SpecMisuse == InitDup /\ [][NextMisuse]_vars

\* C16: delete_node called with a node that is not currently linked is caught
\* by a debug assertion, and the root and every linked node are left unchanged.
C16_UnlinkedDeleteCaught ==
    last.op = "delete_unlinked" =>
        /\ fault \in DebugAborts
        /\ rootptr = last.before.rootptr
        /\ \A m \in linked : mem[m] = last.before.mem[m]

\* C17: in unique-key mode, insert_node of a node whose key is already present
\* fails its precondition assertion before the root or any node, the new one
\* included, is modified.
C17_PresentKeyAsserts ==
    last.op = "insert_present" =>
        /\ fault = "insert_node: assert(contains_key(rootptr_ptr, node_ptr->key) == false)"
        /\ rootptr = last.before.rootptr
        /\ mem = last.before.mem

\* C17 witness: a record was offered whose key is held by a linked node below
\* the root, and the call stopped at the assertion.
C17_Witness ==
    /\ last.op = "insert_present" /\ fault \in DebugAborts
    /\ last.node \notin linked
    /\ \E m \in linked : m # rootptr /\ mem[m].key = last.key
    /\ Cardinality(linked) >= 3

----------------------------------------------------------------------------
\* Calls that overlap.  A query is a descent that reads one link per step; a
\* mutation is the sequence of stores insert_node or delete_node makes, in
\* program order.  Only the mutation writes, so what it reads is what it would
\* read alone, and its stores are those of the call run on the tree it started
\* from.

MaxConc == 4

ConcNodes == {n \in Nodes : n <= 2 * MaxConc}

ConcProbe == {KeyOf(n) : n \in ConcNodes}

InitConc == InitRecords([n \in ConcNodes |-> KeyOf(n)])

\* search_node / contains_key up to the loop: node_ptr = *rootptr_ptr.
query_begin(t, call, k) ==
    [IdleReader EXCEPT !.pc = "walk", !.call = call, !.key = k, !.node_ptr = t.rootptr]

\* One pass of the while loop of search_node / contains_key going left at
\* every node that does not hold the key.
query_step_always_left(t, rd) ==
    IF rd.node_ptr = NULL
    THEN [rd EXCEPT !.pc = "done", !.ret = IF rd.call = "contains_key" THEN FALSE ELSE NULL]
    ELSE IF t.mem[rd.node_ptr].key = rd.key
    THEN [rd EXCEPT !.pc = "done",
                    !.ret = IF rd.call = "contains_key" THEN TRUE ELSE rd.node_ptr]
    ELSE [rd EXCEPT !.node_ptr = left_ptr(t, rd.node_ptr)]

\* One pass of the while loop with the two directions exchanged.
query_step_swapped(t, rd) ==
    IF rd.node_ptr = NULL
    THEN [rd EXCEPT !.pc = "done", !.ret = IF rd.call = "contains_key" THEN FALSE ELSE NULL]
    ELSE IF t.mem[rd.node_ptr].key = rd.key
    THEN [rd EXCEPT !.pc = "done",
                    !.ret = IF rd.call = "contains_key" THEN TRUE ELSE rd.node_ptr]
    ELSE IF KEY_IS_STRICTLY_LESS(rd.key, t.mem[rd.node_ptr].key)
    THEN [rd EXCEPT !.node_ptr = right_ptr(t, rd.node_ptr)]
    ELSE [rd EXCEPT !.node_ptr = left_ptr(t, rd.node_ptr)]

\* One pass of the while loop of search_node / contains_key, the return that
\* follows the loop included.
query_step(t, rd) ==
    IF rd.node_ptr = NULL
    THEN [rd EXCEPT !.pc = "done", !.ret = IF rd.call = "contains_key" THEN FALSE ELSE NULL]
    ELSE LET is_strictly_less    == KEY_IS_STRICTLY_LESS(rd.key, t.mem[rd.node_ptr].key)
             is_strictly_greater == KEY_IS_STRICTLY_LESS(t.mem[rd.node_ptr].key, rd.key)
             is_equal            == ~is_strictly_less /\ ~is_strictly_greater
         IN  IF is_equal
             THEN [rd EXCEPT !.pc = "done",
                             !.ret = IF rd.call = "contains_key" THEN TRUE ELSE rd.node_ptr]
             ELSE IF is_strictly_less
             THEN [rd EXCEPT !.node_ptr = left_ptr(t, rd.node_ptr)]
             ELSE [rd EXCEPT !.node_ptr = right_ptr(t, rd.node_ptr)]

\* Reader r makes the next read of its descent.
QueryStep(r) ==
    /\ readers[r].pc = "walk"
    /\ readers' = [readers EXCEPT ![r] = query_step(Tree, @)]
    /\ UNCHANGED <<rootptr, mem, fault, linked, last, writer>>
    /\ UNCHANGED containers

\* The caller of reader r takes the answer.
QueryReturn(r) ==
    /\ readers[r].pc = "done"
    /\ readers' = [readers EXCEPT ![r] = IdleReader]
    /\ UNCHANGED <<rootptr, mem, fault, linked, last, writer>>
    /\ UNCHANGED containers

\* Queries only: two callers query the tree at once, step by step, and the
\* tree is mutated only while no query is running.

AllIdle == \A r \in Readers : readers[r].pc = "idle"

\* Reader r starts its call with key k; seen is the tree it starts on.
QueryBegin(r, k) ==
    /\ fault = ""
    /\ readers[r].pc = "idle"
    /\ readers' = [readers EXCEPT ![r] =
                       [query_begin(Tree, IF r = 1 THEN "search_node" ELSE "contains_key", k)
                            EXCEPT !.seen = [rootptr |-> rootptr, mem |-> mem]]]
    /\ UNCHANGED <<rootptr, mem, fault, linked, last, writer>>
    /\ UNCHANGED containers

QuietInsert(n) == AllIdle /\ Insert(n)

QuietDelete(n) == AllIdle /\ Delete(n)

NextQueries ==
    \/ \E n \in ConcNodes : QuietInsert(n)
    \/ \E n \in ConcNodes : QuietDelete(n)
    \/ \E r \in Readers : \E k \in ConcProbe \cup {15} : QueryBegin(r, k)
    \/ \E r \in Readers : QueryStep(r)
    \/ \E r \in Readers : QueryReturn(r)
    \/ IsEmpty

SpecQueries == InitConc /\ [][NextQueries]_vars

\* One reader and one mutator without mutual exclusion: the stores of an
\* insert_node or delete_node are made one at a time and the reads of a
\* search_node fall anywhere between them.

\* The nodes holding key k among those linked before and after the running
\* mutation (all linked nodes when none is running).
SteadyHolders(k, stable) == {n \in stable : mem[n].key = k}

\* A mutation starts: a walking reader's key stays steady only if its node is
\* linked before and after it.
ReadersAtStart(stable) ==
    [r \in Readers |->
        IF readers[r].pc = "walk"
        THEN [readers[r] EXCEPT !.steady = @ /\ SteadyHolders(readers[r].key, stable) # {}]
        ELSE readers[r]]

\* A mutation that has been called and has made none of its stores yet.
Started(call, t, stable) ==
    [call |-> call, pending |-> t.writes, stable |-> stable, trace |-> t.trace]

\* insert_node(&rootptr, n) starts; writer.pending are the stores it will make.
BeginInsert(n) ==
    /\ fault = ""
    /\ writer.pending = <<>>
    /\ n \notin linked
    /\ contains_key(Tree, mem[n].key) = FALSE
    /\ writer' = Started("insert_node", insert_node(Tree, n), linked)
    /\ readers' = ReadersAtStart(linked)
    /\ linked' = linked \cup {n}
    /\ UNCHANGED <<rootptr, mem, fault, last>>
    /\ UNCHANGED containers

\* delete_node(&rootptr, n) starts.
BeginDelete(n) ==
    /\ fault = ""
    /\ writer.pending = <<>>
    /\ n \in linked
    /\ writer' = Started("delete_node", delete_node(Tree, n), linked \ {n})
    /\ readers' = ReadersAtStart(linked \ {n})
    /\ linked' = linked \ {n}
    /\ UNCHANGED <<rootptr, mem, fault, last>>
    /\ UNCHANGED containers

\* The running mutation makes its next store; a query that is walking has now
\* been overlapped by a write.
WriterStep ==
    /\ writer.pending # <<>>
    /\ LET w == Head(writer.pending) IN
          /\ rootptr' = IF w.at = "root" THEN w.val ELSE rootptr
          /\ mem' = IF w.at = "child" THEN [mem EXCEPT ![w.node].child_ptrs[w.dir] = w.val]
                    ELSE IF w.at = "word"
                    THEN [mem EXCEPT ![w.node].parent_ptr_with_color_bit = w.val]
                    ELSE mem
    /\ writer' = IF Len(writer.pending) = 1 THEN NoMutation
                 ELSE [writer EXCEPT !.pending = Tail(@)]
    /\ readers' = [r \in Readers |->
                     IF readers[r].pc = "walk"
                     THEN [readers[r] EXCEPT !.overlapped = TRUE]
                     ELSE readers[r]]
    /\ UNCHANGED <<fault, linked, last>>
    /\ UNCHANGED containers

\* search_node(&rootptr, k) starts, possibly in the middle of a mutation.
SearchBegin(k) ==
    /\ fault = ""
    /\ readers[1].pc = "idle"
    /\ readers' = [readers EXCEPT ![1] =
                       [query_begin(Tree, "search_node", k)
                            EXCEPT !.overlapped = (writer.pending # <<>>),
                                   !.steady = SteadyHolders(k, IF writer.pending = <<>>
                                                               THEN linked
                                                               ELSE writer.stable) # {}]]
    /\ UNCHANGED <<rootptr, mem, fault, linked, last, writer>>
    /\ UNCHANGED containers

NextConc ==
    \/ \E n \in ConcNodes : BeginInsert(n)
    \/ \E n \in ConcNodes : BeginDelete(n)
    \/ WriterStep
    \/ \E k \in ConcProbe : SearchBegin(k)
    \/ QueryStep(1)
    \/ QueryReturn(1)

SpecConc == InitConc /\ [][NextConc]_vars

\* C18: search_node, contains_key and is_empty change neither the root nor the
\* key, colour or links of any node, so queries interleaved with each other
\* (no mutation running) return the answers they return when run one at a time.
C18_QueriesReadOnly ==
    /\ \A r \in Readers :
          LET rd == readers[r] IN
          /\ rd.pc # "idle" => (rootptr = rd.seen.rootptr /\ mem = rd.seen.mem)
          /\ rd.pc = "done" =>
                IF rd.call = "search_node"
                THEN rd.ret = search_node(Tree, rd.key)
                ELSE rd.ret = contains_key(Tree, rd.key)
    /\ last.op = "is_empty" => (last.ret = is_empty(Tree))

\* C18 witness: search_node has found its node while contains_key is in the
\* middle of its descent, and is_empty was answered in between.
C18_Witness ==
    /\ readers[1].pc = "done" /\ readers[1].ret # NULL /\ readers[1].ret # rootptr
    /\ readers[2].pc = "walk" /\ readers[2].node_ptr \notin {NULL, rootptr}
    /\ last.op = "is_empty"

\* C19: without mutual exclusion a search can return empty for a key whose
\* node is linked both before and after a mutation; it does so only when the
\* search overlapped the stores of that mutation, and a search no store
\* overlapped finds the node.
C19_MissNeedsOverlap ==
    LET rd == readers[1] IN
    (rd.pc = "done" /\ rd.steady /\ ~rd.overlapped) =>
        (rd.ret # NULL /\ mem[rd.ret].key = rd.key)

\* C19 witness: search_node returned NULL between two stores of a running
\* insert_node that rotates, for a key whose node was linked before the insert
\* started and stays linked.
C19_Witness ==
    LET rd == readers[1] IN
    /\ rd.pc = "done" /\ rd.ret = NULL
    /\ rd.steady /\ rd.overlapped
    /\ writer.call = "insert_node" /\ writer.pending # <<>>
    /\ \E i \in DOMAIN writer.trace : writer.trace[i] = "rotate"
    /\ SteadyHolders(rd.key, writer.stable) # {}

----------------------------------------------------------------------------
\* A caller that fills and then drains the tree, over more records, so that
\* trees deep enough for the fixup loops to go round are built: it inserts
\* MaxDeep records in ascending key order, then deletes up to MaxDrain of
\* them in any order.

MaxDeep == 10

MaxDrain == 3

DeepNodes == {2 * i : i \in 1..MaxDeep}

InitDeep == InitRecords([n \in DeepNodes |-> KeyOf(n)])

Fill ==
    \E i \in 1..MaxDeep :
        /\ last.op \in {"init", "insert"}
        /\ linked = {2 * j : j \in 1..(i - 1)}
        /\ Insert(2 * i)

Drain(n) ==
    /\ linked = DeepNodes \/ last.op = "delete"
    /\ Cardinality(linked) > MaxDeep - MaxDrain
    /\ Delete(n)

NextDeep ==
    \/ Fill
    \/ \E n \in DeepNodes : Drain(n)

SpecDeep == InitDeep /\ [][NextDeep]_vars

\* The depths of successive passes of a fixup loop strictly decrease.
StrictlyClimbing(climb) == \A i \in 1..(Len(climb) - 1) : climb[i + 1] < climb[i]

\* C20: search_node, contains_key, insert_node and delete_node terminate on a
\* tree that satisfies the invariants: the child links form an acyclic tree (a
\* walk down from the root meets every linked node once and ends within the
\* number of nodes), so the descents and the successor walk end, and every pass
\* of the insertion and deletion fixup loops works strictly closer to the root
\* than the pass before.
C20_Terminates ==
    /\ fault = ""
    /\ Len(InOrderNodes(Tree, rootptr, Depth)) = Cardinality(linked)
    /\ Reachable(Tree) = linked
    /\ Height(Tree, rootptr, Depth) < Depth
    /\ Height(Tree, rootptr, Depth) <= Cardinality(linked)
    /\ last.op \in {"insert", "delete"} =>
          /\ StrictlyClimbing(last.climb)
          /\ \A i \in DOMAIN last.climb : last.climb[i] < Cardinality(DOMAIN mem)

\* C20 witness: a delete_node whose fixup loop went round twice, the second
\* pass one level above the first, and returned.
C20_Witness ==
    /\ last.op = "delete" /\ Did("D_move_up")
    /\ Len(last.climb) = 2 /\ last.climb[2] = last.climb[1] - 1


----------------------------------------------------------------------------
\* What a call leaves alone.

\* C21: insert_node and delete_node never change the key stored in any node,
\* and delete_node unlinks exactly the node it is given: every other linked
\* node stays linked with its own key, also when the node had two children
\* and its successor was relinked into its place.
C21_KeysAndOthersKept ==
    /\ \A n \in Nodes : mem[n].key = KeyOf(n)
    /\ Reachable(Tree) = linked
    /\ KeysIn(Tree) = {KeyOf(n) : n \in linked}
    /\ last.op = "delete" => /\ last.node \notin Reachable(Tree)
                             /\ last.key = KeyOf(last.node)
                             /\ last.key \notin KeysIn(Tree)

\* C21 witness: a node with two children has been deleted, its successor was
\* relinked from further down, and at least four nodes stay linked, one of
\* them with a greater and one with a smaller key than the deleted node.
C21_Witness ==
    /\ last.op = "delete" /\ Did("successor_far")
    /\ Cardinality(linked) >= 4
    /\ \E a, b \in Reachable(Tree) : mem[a].key < last.key /\ last.key < mem[b].key

----------------------------------------------------------------------------
\* The steps inside a call, read from the record of the call.

\* The rotations of the last call: i is the entry of one in last.calls, the
\* entry after it is its return.
Rotations ==
    {i \in DOMAIN last.calls : last.calls[i].fn = "rotate_dir" /\ last.calls[i].at = "call"}

\* What rotate_dir(P, dir) has to have done between the tree pre it was called
\* on and the tree post it returned on, ret being the node it returned.
Rotated(pre, post, P, dir, ret) ==
    LET G == node_get_parent_ptr(pre, P)
        S == pre.mem[P].child_ptrs[1 - dir]
        C == pre.mem[S].child_ptrs[dir]
        side == IF G # NULL /\ pre.mem[G].child_ptrs[1] = P THEN 1 ELSE 0
    IN  /\ S # NULL
        /\ ret = S
        /\ node_get_parent_ptr(post, S) = G
        /\ IF G = NULL
           THEN post.rootptr = S
           ELSE /\ post.rootptr = pre.rootptr
                /\ post.mem[G].child_ptrs[side] = S
                /\ post.mem[G].child_ptrs[1 - side] = pre.mem[G].child_ptrs[1 - side]
        /\ post.mem[S].child_ptrs[dir] = P
        /\ node_get_parent_ptr(post, P) = S
        /\ post.mem[P].child_ptrs[1 - dir] = C
        /\ C # NULL => node_get_parent_ptr(post, C) = P
        /\ post.mem[P].child_ptrs[dir] = pre.mem[P].child_ptrs[dir]
        /\ post.mem[S].child_ptrs[1 - dir] = pre.mem[S].child_ptrs[1 - dir]
        /\ \A n \in DOMAIN pre.mem :
              /\ node_is_black(post, n) <=> node_is_black(pre, n)
              /\ post.mem[n].key = pre.mem[n].key
              /\ n \notin {P, S, C, G} => post.mem[n] = pre.mem[n]
        /\ InOrder(post, post.rootptr, Depth) = InOrder(pre, pre.rootptr, Depth)
        /\ Subtree(post, post.rootptr, Depth) = Subtree(pre, pre.rootptr, Depth)

\* C26: rotate(P, dir) with S the child of P opposite dir: S takes P's former
\* position (its former parent's child slot, or the root reference), P becomes
\* S's child on side dir, S's former child on side dir becomes P's child
\* opposite dir, the parent references of S, P and that child follow, S is
\* returned, no node changes colour and the in-order key sequence is the same.
C26_Rotate ==
    \A i \in Rotations :
        /\ i + 1 \in DOMAIN last.calls
        /\ last.calls[i + 1].fn = "rotate_dir" /\ last.calls[i + 1].at = "return"
        /\ Rotated(last.calls[i], last.calls[i + 1],
                   last.calls[i].node, last.calls[i].dir, last.calls[i + 1].node)

\* C26 witness: the last call rotated twice: once at a pivot below the root,
\* and once, to the right, at the root with the rising child handing a subtree
\* over to the pivot.
C26_Witness ==
    \E i, j \in Rotations :
        /\ i # j
        /\ node_get_parent_ptr(last.calls[i], last.calls[i].node) # NULL
        /\ LET pre == last.calls[j]
               S   == pre.mem[pre.node].child_ptrs[1 - pre.dir]
           IN  /\ node_get_parent_ptr(pre, pre.node) = NULL
               /\ pre.mem[S].child_ptrs[pre.dir] # NULL
               /\ pre.dir = 1

\* C27 as stated: insert_node into an empty tree makes the node the root, with
\* no parent and no children, and colours it BLACK.
C27_EmptyInsertBlack ==
    (last.op = "insert" /\ last.keys = {}) =>
        /\ rootptr = last.node
        /\ node_get_parent_ptr(Tree, last.node) = NULL
        /\ left_ptr(Tree, last.node) = NULL
        /\ right_ptr(Tree, last.node) = NULL
        /\ node_is_black(Tree, last.node)

\* The tree on which the last insert_node called insert_fixup: the new node
\* has just been linked.
JustLinked == last.calls[1]

\* JustLinked with the child slot of the new node's parent empty again.
BeforeLink ==
    LET P == node_get_parent_ptr(JustLinked, last.node)
    IN  [rootptr |-> JustLinked.rootptr,
         mem |-> [JustLinked.mem EXCEPT ![P].child_ptrs[JustLinked.dir] = NULL]]

\* C28: insert_node into a non-empty tree, before the fixup runs: the new node
\* is a RED leaf whose parent is the last node the descent visited, attached on
\* the right when the parent's key is strictly less than the new key and on
\* the left otherwise; the slot was empty: all nodes linked before still are.
C28_LinkedAsRedLeaf ==
    (last.op = "insert" /\ last.keys # {}) =>
        /\ last.calls # <<>>
        /\ JustLinked.fn = "insert_fixup" /\ JustLinked.at = "call"
        /\ JustLinked.node = last.node
        /\ LET N == last.node
               P == node_get_parent_ptr(JustLinked, N)
           IN  /\ P # NULL
               /\ node_is_red(JustLinked, N)
               /\ left_ptr(JustLinked, N) = NULL /\ right_ptr(JustLinked, N) = NULL
               /\ JustLinked.mem[P].child_ptrs[JustLinked.dir] = N
               /\ JustLinked.mem[P].child_ptrs[1 - JustLinked.dir] # N
               /\ JustLinked.dir = IF KEY_IS_STRICTLY_LESS(mem[P].key, mem[N].key) THEN 1 ELSE 0
               /\ insert_descend(BeforeLink, NULL, BeforeLink.rootptr, N) = P
               /\ Subtree(BeforeLink, BeforeLink.rootptr, Depth) = linked \ {N}
               /\ Subtree(JustLinked, JustLinked.rootptr, Depth) = linked
               /\ {BeforeLink.mem[m].key : m \in linked \ {N}} = last.keys

\* C28 witness: the node was linked on the left of a RED parent two levels
\* below the root, so that the fixup had work to do afterwards.
C28_Witness ==
    /\ last.op = "insert" /\ last.keys # {} /\ last.calls # <<>>
    /\ LET P == node_get_parent_ptr(JustLinked, last.node)
       IN  /\ JustLinked.dir = 0
           /\ node_is_red(JustLinked, P)
           /\ DepthOf(JustLinked, P, MaxNodes) = 2

\* The cases the passes of the last insert_fixup went through, in order, and
\* the trees on which its loop went round again (N is the node of the entry).
Cases == SelectSeq(last.trace, LAMBDA s : s # "rotate")

Repeats == SelectSeq(last.calls, LAMBDA c : c.fn = "insert_fixup_loop")

\* The pass before the i-th repeat was the red-uncle recolouring: on the tree
\* of the repeat the new N is the RED grandparent G of the N before, with a
\* parent, and G's children, the P and U of that pass, are BLACK.
RecolouredAndMovedUp(i) ==
    LET r     == Repeats[i]
        G     == r.node
        prevN == IF i = 1 THEN last.node ELSE Repeats[i - 1].node
        P     == node_get_parent_ptr(r, prevN)
    IN  /\ Cases[i] = "I_red_uncle"
        /\ last.climb[i + 1] = last.climb[i] - 2
        /\ node_get_parent_ptr(r, P) = G
        /\ node_get_parent_ptr(r, G) # NULL
        /\ node_is_red(r, G) /\ node_is_red(r, prevN)
        /\ \A d \in {0, 1} : /\ r.mem[G].child_ptrs[d] # NULL
                             /\ node_is_black(r, r.mem[G].child_ptrs[d])

\* C29: insertion fixup moves up to the grandparent and goes round again only
\* after the red-uncle recolouring (P and U BLACK, G RED); a pass that finds
\* the parent BLACK, or the red parent at the root (recoloured BLACK), or the
\* uncle BLACK or absent, is the last pass.
C29_OnlyRedUncleRepeats ==
    (last.op = "insert" /\ last.keys # {}) =>
        /\ Len(Cases) = Len(Repeats) + 1
        /\ Len(last.climb) = Len(Cases)
        /\ \A i \in 1..Len(Repeats) : RecolouredAndMovedUp(i)
        /\ LET final == Cases[Len(Cases)]
           IN  /\ final \in {"I_black_parent", "I_red_root_parent", "I_black_uncle", "I_red_uncle"}
               /\ final = "I_red_root_parent" => node_is_black(Tree, rootptr)
               /\ final = "I_red_uncle" =>
                     /\ last.climb[Len(Cases)] = 1
                     /\ node_is_red(Tree, rootptr)
                     /\ \A d \in {0, 1} : /\ mem[rootptr].child_ptrs[d] # NULL
                                          /\ node_is_black(Tree, mem[rootptr].child_ptrs[d])

\* C29 witness: the fixup recoloured under a red uncle, moved up two levels
\* and ended there in the black-uncle case with a rotation.
C29_Witness ==
    /\ last.op = "insert" /\ Len(Repeats) = 1
    /\ Cases = <<"I_red_uncle", "I_black_uncle">>
    /\ Did("rotate")

\* The stores of the last call that went to a node other than other_than.
StoresElsewhere(other_than) ==
    {i \in DOMAIN last.writes : last.writes[i].node # other_than}

\* C30: delete_node of a linked node without children.  If the node is the
\* root or RED it is only detached: its place is emptied and nothing else is
\* stored, recoloured or rotated.  If it is BLACK and not the root it is
\* detached and the deletion fixup runs at its former parent, with dir the
\* side the node occupied.
C30_DeleteLeaf ==
    /\ (last.op = "delete" /\ Did("leaf_detach")) =>
          /\ linked = {} \/ node_is_red(Tree, last.node)
          /\ last.trace = <<"leaf_detach">> /\ last.calls = <<>>
          /\ Cardinality(StoresElsewhere(last.node)) = 1
          /\ LET w == last.writes[1]
             IN  /\ w.val = NULL
                 /\ IF linked = {} THEN w.at = "root"
                    ELSE /\ w.at = "child" /\ w.node \in linked
                         /\ w.dir = IF KEY_IS_STRICTLY_LESS(mem[w.node].key, last.key)
                                    THEN 1 ELSE 0
          /\ \A i \in 2..Len(last.writes) : last.writes[i].node = last.node
    /\ (last.op = "delete" /\ Did("leaf_fixup")) =>
          /\ linked # {} /\ node_is_black(Tree, last.node)
          /\ last.trace[1] = "leaf_fixup"
          /\ LET c == last.calls[1]
                 w == last.writes[1]
             IN  /\ c.fn = "delete_fixup" /\ c.at = "call"
                 /\ node_get_parent_ptr(c, last.node) = c.node
                 /\ c.node \in linked
                 /\ c.dir = IF KEY_IS_STRICTLY_LESS(mem[c.node].key, last.key) THEN 1 ELSE 0
                 /\ c.mem[c.node].child_ptrs[c.dir] = NULL
                 /\ w = [at |-> "child", node |-> c.node, dir |-> c.dir, val |-> NULL]
                 /\ Subtree(c, c.rootptr, Depth) = linked
          /\ \A i \in DOMAIN last.calls :
                last.calls[i].fn = "delete_fixup" => i = 1

\* C30 witness: a BLACK leaf that was a right child has been deleted and the
\* fixup, called at its parent for side 1, rotated.
C30_Witness ==
    /\ last.op = "delete" /\ Did("leaf_fixup") /\ Did("rotate")
    /\ last.calls[1].dir = 1
    /\ node_is_black(Tree, last.node)

----------------------------------------------------------------------------
\* The ring-buffer queue: a caller that creates one queue, uses it within the
\* preconditions the calls assert, and destroys it.

\* Largest capacity create is asked for.
MaxRequest == 3

\* Values are 1..MaxValue; 0 is what calloc left in a slot never written.
MaxValue == 2

\* Number of enqueues between two calls of create or clear.
MaxEnqueues == 5

\* held for the queue: the capacity asked for, and the values enqueued and the
\* values dequeue returned, in order, since create or the last clear.
HeldQueue(min_capacity) ==
    [in |-> "fqueue", requested |-> min_capacity, enqueued |-> <<>>, dequeued |-> <<>>]

\* The tree is not used.
NoTree ==
    /\ rootptr = NULL
    /\ mem = <<>>
    /\ fault = ""
    /\ linked = {}
    /\ writer = NoMutation
    /\ readers = [r \in Readers |-> IdleReader]

tree == <<rootptr, mem, fault, linked, writer, readers>>

InitQueue ==
    /\ NoTree
    /\ NoContainers
    /\ last = [op |-> "init", arg |-> 0, ret |-> 0]

\* q = create(min_capacity), no queue existing.
QueueCreate(min_capacity) ==
    /\ fqueue.ptr = NULL
    /\ fqueue' = fqueue_create(min_capacity)
    /\ held' = HeldQueue(min_capacity)
    /\ last' = [op |-> "create", arg |-> min_capacity, ret |-> fqueue'.ptr]
    /\ UNCHANGED <<tree, fhashtable, fpqueue>>

\* destroy(q): free.
QueueDestroy ==
    /\ fqueue.ptr # NULL
    /\ fqueue' = NoQueue
    /\ held' = NothingHeld
    /\ last' = [op |-> "destroy", arg |-> 0, ret |-> 0]
    /\ UNCHANGED <<tree, fhashtable, fpqueue>>

QueueIsEmpty ==
    /\ fqueue.ptr # NULL
    /\ last' = [op |-> "is_empty", arg |-> 0, ret |-> fqueue_is_empty(fqueue)]
    /\ UNCHANGED <<tree, containers>>

QueueIsFull ==
    /\ fqueue.ptr # NULL
    /\ last' = [op |-> "is_full", arg |-> 0, ret |-> fqueue_is_full(fqueue)]
    /\ UNCHANGED <<tree, containers>>

\* get_front(q) and get_back(q), the queue not empty.
QueueGetFront ==
    /\ fqueue.ptr # NULL
    /\ ~fqueue_is_empty(fqueue)
    /\ last' = [op |-> "get_front", arg |-> 0, ret |-> fqueue_get_front(fqueue)]
    /\ UNCHANGED <<tree, containers>>

QueueGetBack ==
    /\ fqueue.ptr # NULL
    /\ ~fqueue_is_empty(fqueue)
    /\ last' = [op |-> "get_back", arg |-> 0, ret |-> fqueue_get_back(fqueue)]
    /\ UNCHANGED <<tree, containers>>

\* enqueue(q, value), the queue not full.
QueueEnqueue(value) ==
    /\ fqueue.ptr # NULL
    /\ ~fqueue_is_full(fqueue)
    /\ Len(held.enqueued) < MaxEnqueues
    /\ fqueue' = fqueue_enqueue(fqueue, value)
    /\ held' = [held EXCEPT !.enqueued = Append(@, value)]
    /\ last' = [op |-> "enqueue", arg |-> value, ret |-> TRUE]
    /\ UNCHANGED <<tree, fhashtable, fpqueue>>

\* dequeue(q), the queue not empty.
QueueDequeue ==
    /\ fqueue.ptr # NULL
    /\ ~fqueue_is_empty(fqueue)
    /\ fqueue' = fqueue_dequeue(fqueue)
    /\ held' = [held EXCEPT !.dequeued = Append(@, fqueue_dequeue_ret(fqueue))]
    /\ last' = [op |-> "dequeue", arg |-> 0, ret |-> fqueue_dequeue_ret(fqueue)]
    /\ UNCHANGED <<tree, fhashtable, fpqueue>>

\* clear(q).
QueueClear ==
    /\ fqueue.ptr # NULL
    /\ fqueue' = fqueue_clear(fqueue)
    /\ held' = HeldQueue(held.requested)
    /\ last' = [op |-> "clear", arg |-> 0, ret |-> 0]
    /\ UNCHANGED <<tree, fhashtable, fpqueue>>

NextQueue ==
    \/ \E min_capacity \in 0..MaxRequest : QueueCreate(min_capacity)
    \/ QueueDestroy
    \/ QueueIsEmpty
    \/ QueueIsFull
    \/ QueueGetFront
    \/ QueueGetBack
    \/ \E value \in 1..MaxValue : QueueEnqueue(value)
    \/ QueueDequeue
    \/ QueueClear

SpecQueue == InitQueue /\ [][NextQueue]_vars

\* C25: in every state of a queue, 0 <= count <= capacity; count is the number
\* of enqueues minus the number of dequeues since create or the last clear;
\* end_index = (begin_index + count) mod capacity; capacity is the capacity
\* asked for rounded up to a power of two; and is_empty, is_full return
\* count = 0, count = capacity.
C25_QueueCounts ==
    fqueue.ptr # NULL =>
        /\ 0 <= fqueue.count /\ fqueue.count <= fqueue.capacity
        /\ fqueue.count = Len(held.enqueued) - Len(held.dequeued)
        /\ fqueue.end_index = (fqueue.begin_index + fqueue.count) % fqueue.capacity
        /\ IS_POW2(fqueue.capacity)
        /\ fqueue.capacity >= held.requested
        /\ fqueue.capacity < 2 * held.requested
        /\ last.op = "is_empty" => (last.ret <=> Len(held.enqueued) = Len(held.dequeued))
        /\ last.op = "is_full" =>
              (last.ret <=> Len(held.enqueued) - Len(held.dequeued) = fqueue.capacity)

\* A queue asked for with capacity 3 is full with four values in it, after
\* both indices have wrapped around.
C25_Witness ==
    /\ fqueue.ptr # NULL
    /\ held.requested = 3
    /\ last.op = "is_full" /\ last.ret
    /\ fqueue.count = 4
    /\ Len(held.dequeued) > 0
    /\ fqueue.begin_index = fqueue.end_index


\* C22: the values dequeue has returned are, in order, the first values
\* enqueued since create or the last clear, whatever the interleaving of
\* enqueue and dequeue and however often the indices have wrapped around.
C22_FifoOrder ==
    fqueue.ptr # NULL =>
        /\ Len(held.dequeued) <= Len(held.enqueued)
        /\ \A i \in 1..Len(held.dequeued) : held.dequeued[i] = held.enqueued[i]
        /\ last.op = "dequeue" => last.ret = held.enqueued[Len(held.dequeued)]
        /\ last.op = "get_front" => last.ret = held.enqueued[Len(held.dequeued) + 1]
        /\ last.op = "get_back" => last.ret = held.enqueued[Len(held.enqueued)]
        /\ \A i \in 1..fqueue.count :
              fqueue_at(fqueue, i - 1) = held.enqueued[Len(held.dequeued) + i]

\* A queue of capacity 4 has returned a fifth value, which differs from the
\* fourth and lay in the slot the first had lain in: both indices wrapped.
C22_Witness ==
    /\ fqueue.ptr # NULL
    /\ fqueue.capacity = 4
    /\ last.op = "dequeue"
    /\ Len(held.dequeued) = 5
    /\ held.dequeued[5] # held.dequeued[4]
    /\ held.dequeued[5] # held.dequeued[1]
    /\ fqueue.begin_index = 1
    /\ fqueue.end_index = 1


----------------------------------------------------------------------------
\* The hashtable: a caller that creates one table, inserts keys that are not
\* in it while it is not full, and updates and deletes any key.

\* Keys are 1..MaxKey.
MaxKey == 5

\* held for the table: the capacity asked for and the keys put in by insert
\* or update and not deleted since.
HeldTable(min_capacity) == [in |-> "fhashtable", requested |-> min_capacity, keys |-> {}]

InitTable ==
    /\ NoTree
    /\ NoContainers
    /\ last = [op |-> "init", arg |-> 0, ret |-> FALSE, was |-> FALSE, moved |-> 0]

\* Number of slots that hold another key after a call than before it.
Moved(before, after) ==
    Cardinality({i \in DOMAIN after.slots :
                    /\ after.slots[i].offset # FHASHTABLE_EMPTY_SLOT_OFFSET
                    /\ after.slots[i].key # before.slots[i].key})

\* A call on the table returns result.ret and leaves the table result.self.
TableReturn(result, call) ==
    /\ fhashtable' = result.self
    /\ last' = [call EXCEPT !.ret = result.ret, !.moved = Moved(fhashtable, result.self)]
    /\ UNCHANGED <<tree, fqueue, fpqueue>>

TableCreate(min_capacity) ==
    /\ fhashtable.ptr = NULL
    /\ fhashtable' = fhashtable_create(min_capacity)
    /\ held' = HeldTable(min_capacity)
    /\ last' = [op |-> "create", arg |-> min_capacity, ret |-> FALSE, was |-> FALSE, moved |-> 0]
    /\ UNCHANGED <<tree, fqueue, fpqueue>>

TableDestroy ==
    /\ fhashtable.ptr # NULL
    /\ fhashtable.fault = ""
    /\ fhashtable' = NoTable
    /\ held' = NothingHeld
    /\ last' = [op |-> "destroy", arg |-> 0, ret |-> FALSE, was |-> FALSE, moved |-> 0]
    /\ UNCHANGED <<tree, fqueue, fpqueue>>

TableContainsKey(key) ==
    /\ fhashtable.ptr # NULL
    /\ fhashtable.fault = ""
    /\ last' = [op |-> "contains_key", arg |-> key, ret |-> fhashtable_contains_key(fhashtable, key),
                was |-> key \in held.keys, moved |-> 0]
    /\ UNCHANGED <<tree, containers>>

\* insert(t, key, value): the key is not in the table (asserted) and the
\* table is not full.
TableInsert(key, value) ==
    /\ fhashtable.ptr # NULL
    /\ fhashtable.fault = ""
    /\ fhashtable_contains_key(fhashtable, key) = FALSE
    /\ ~fhashtable_is_full(fhashtable)
    /\ TableReturn([self |-> fhashtable_insert(fhashtable, key, value), ret |-> FALSE],
                   [op |-> "insert", arg |-> key, ret |-> FALSE, was |-> key \in held.keys,
                    moved |-> 0])
    /\ held' = [held EXCEPT !.keys = @ \cup {key}]

\* update(t, key, value), whatever the table holds.
TableUpdate(key, value) ==
    /\ fhashtable.ptr # NULL
    /\ fhashtable.fault = ""
    /\ TableReturn([self |-> fhashtable_update(fhashtable, key, value), ret |-> FALSE],
                   [op |-> "update", arg |-> key, ret |-> FALSE, was |-> key \in held.keys,
                    moved |-> 0])
    /\ held' = [held EXCEPT !.keys = @ \cup {key}]

\* delete(t, key), whatever the table holds.
TableDelete(key) ==
    /\ fhashtable.ptr # NULL
    /\ fhashtable.fault = ""
    /\ TableReturn(fhashtable_delete(fhashtable, key),
                   [op |-> "delete", arg |-> key, ret |-> FALSE, was |-> key \in held.keys,
                    moved |-> 0])
    /\ held' = [held EXCEPT !.keys = @ \ {key}]

TableClear ==
    /\ fhashtable.ptr # NULL
    /\ fhashtable.fault = ""
    /\ fhashtable' = fhashtable_clear(fhashtable)
    /\ held' = HeldTable(held.requested)
    /\ last' = [op |-> "clear", arg |-> 0, ret |-> FALSE, was |-> FALSE, moved |-> 0]
    /\ UNCHANGED <<tree, fqueue, fpqueue>>

NextTable ==
    \/ \E min_capacity \in 0..MaxRequest : TableCreate(min_capacity)
    \/ TableDestroy
    \/ \E key \in 1..MaxKey : TableContainsKey(key)
    \/ \E key \in 1..MaxKey, value \in 1..MaxValue : TableInsert(key, value)
    \/ \E key \in 1..MaxKey, value \in 1..MaxValue : TableUpdate(key, value)
    \/ \E key \in 1..MaxKey : TableDelete(key)
    \/ TableClear

SpecTable == InitTable /\ [][NextTable]_vars

\* Keys in the slots of the table that are not empty.
StoredKeys(self) ==
    {self.slots[i].key : i \in {j \in DOMAIN self.slots :
                                   self.slots[j].offset # FHASHTABLE_EMPTY_SLOT_OFFSET}}

\* contains_key is true of exactly the keys held, the probe finds every key
\* that is in a slot, and delete and contains_key return whether the key was
\* held.
ContainsIffHeld ==
    /\ \A key \in 1..MaxKey : fhashtable_contains_key(fhashtable, key) <=> key \in held.keys
    /\ \A key \in StoredKeys(fhashtable) : fhashtable_contains_key(fhashtable, key)
    /\ fhashtable.count = Cardinality(held.keys)
    /\ last.op \in {"delete", "contains_key"} => last.ret = last.was

\* C23: after any sequence of insert (key absent, table not full), update and
\* delete, contains_key is true of exactly the keys inserted or updated and not
\* deleted since, delete returns whether the key was present, and the probe
\* never stops before a key that is in the table, also after a backshift.
C23_ContainsIffHeld == fhashtable.ptr # NULL => ContainsIffHeld

\* As long as no update was called with a new key on a full table, all of it
\* holds.
ContainsIffHeldWithinCapacity ==
    fhashtable.ptr # NULL /\ fhashtable.fault = "" => ContainsIffHeld

\* A delete has moved two keys back, and a key that lies two slots from the
\* slot it hashes to is still found.
BackshiftWitness ==
    /\ fhashtable.ptr # NULL
    /\ last.op = "delete" /\ last.ret
    /\ last.moved >= 2
    /\ \E i \in DOMAIN fhashtable.slots :
          /\ fhashtable.slots[i].offset # FHASHTABLE_EMPTY_SLOT_OFFSET
          /\ fhashtable.slots[i].offset >= 1

\* An insert has taken the slot of a key nearer to its own slot and carried
\* that key on.
RobinHoodWitness ==
    /\ fhashtable.ptr # NULL
    /\ last.op = "insert"
    /\ last.moved >= 2


----------------------------------------------------------------------------
\* The priority queue: a caller that creates one queue and pushes and pops
\* within the preconditions the calls assert.

\* Largest capacity create is asked for.
MaxHeap == 5

\* Priorities are 0..MaxPriority.
MaxPriority == 2

\* The value pushed with a priority tells the priority, and is not 0, the
\* value calloc left in an element never written.
ValueOf(priority) == 10 * (priority + 1)

\* The priority a value was pushed with.
PriorityOf(value) == value \div 10 - 1

HeapValues == {ValueOf(priority) : priority \in 0..MaxPriority}

\* held for the priority queue: of every value, how often it has been pushed
\* and not popped.
HeldHeap == [in |-> "fpqueue", n |-> [value \in HeapValues |-> 0]]

InitHeap ==
    /\ NoTree
    /\ NoContainers
    /\ last = [op |-> "init", arg |-> 0, ret |-> 0, top |-> 0]

\* The largest priority of a value held.
TopPriority(n) ==
    CHOOSE p \in 0..MaxPriority :
        /\ n[ValueOf(p)] > 0
        /\ \A q \in 0..MaxPriority : n[ValueOf(q)] > 0 => q <= p

HeapCreate(capacity) ==
    /\ fpqueue.ptr = NULL
    /\ fpqueue' = fpqueue_create(capacity)
    /\ held' = HeldHeap
    /\ last' = [op |-> "create", arg |-> capacity, ret |-> 0, top |-> 0]
    /\ UNCHANGED <<tree, fqueue, fhashtable>>

HeapDestroy ==
    /\ fpqueue.ptr # NULL
    /\ fpqueue' = NoHeap
    /\ held' = NothingHeld
    /\ last' = [op |-> "destroy", arg |-> 0, ret |-> 0, top |-> 0]
    /\ UNCHANGED <<tree, fqueue, fhashtable>>

\* get_max(q), the queue not empty.
HeapGetMax ==
    /\ fpqueue.ptr # NULL
    /\ ~fpqueue_is_empty(fpqueue)
    /\ last' = [op |-> "get_max", arg |-> 0, ret |-> fpqueue_get_max(fpqueue),
                top |-> TopPriority(held.n)]
    /\ UNCHANGED <<tree, containers>>

\* push(q, value, priority), the queue not full.
HeapPush(value, priority) ==
    /\ fpqueue.ptr # NULL
    /\ ~fpqueue_is_full(fpqueue)
    /\ fpqueue' = fpqueue_push(fpqueue, value, priority)
    /\ held' = [held EXCEPT !.n[value] = @ + 1]
    /\ last' = [op |-> "push", arg |-> value, ret |-> 0, top |-> 0]
    /\ UNCHANGED <<tree, fqueue, fhashtable>>

\* pop_max(q), the queue not empty.
HeapPopMax ==
    /\ fpqueue.ptr # NULL
    /\ ~fpqueue_is_empty(fpqueue)
    /\ fpqueue' = fpqueue_pop_max(fpqueue)
    /\ held' = [held EXCEPT !.n[fpqueue_pop_max_ret(fpqueue)] = @ - 1]
    /\ last' = [op |-> "pop_max", arg |-> 0, ret |-> fpqueue_pop_max_ret(fpqueue),
                top |-> TopPriority(held.n)]
    /\ UNCHANGED <<tree, fqueue, fhashtable>>

HeapClear ==
    /\ fpqueue.ptr # NULL
    /\ fpqueue' = fpqueue_clear(fpqueue)
    /\ held' = HeldHeap
    /\ last' = [op |-> "clear", arg |-> 0, ret |-> 0, top |-> 0]
    /\ UNCHANGED <<tree, fqueue, fhashtable>>

NextHeap ==
    \/ \E capacity \in 0..MaxHeap : HeapCreate(capacity)
    \/ HeapDestroy
    \/ HeapGetMax
    \/ \E priority \in 0..MaxPriority : HeapPush(ValueOf(priority), priority)
    \/ HeapPopMax
    \/ HeapClear

SpecHeap == InitHeap /\ [][NextHeap]_vars

\* C24: after any sequence of push (not full) and pop_max (not empty), the
\* priority of every element is at most that of its heap parent, the elements
\* are the values pushed and not popped, each with its priority, and pop_max
\* (like get_max) has returned a value whose priority was the largest of all
\* elements stored when it was called.
C24_HeapOrderAndMax ==
    fpqueue.ptr # NULL =>
        /\ \A i \in 1..(fpqueue.count - 1) :
              fpqueue.elements[i].priority <= fpqueue.elements[FPQUEUE_PARENT(i)].priority
        /\ \A value \in HeapValues :
              held.n[value] = Cardinality({i \in 0..(fpqueue.count - 1) :
                                              fpqueue.elements[i].value = value})
        /\ \A i \in 0..(fpqueue.count - 1) :
              fpqueue.elements[i].priority = PriorityOf(fpqueue.elements[i].value)
        /\ last.op \in {"pop_max", "get_max"} => PriorityOf(last.ret) = last.top

\* pop_max has returned a value of priority 2 from a heap of five, and the
\* last element, the only one of priority 0 left, has sunk two levels from
\* the root to index 3.
C24_Witness ==
    /\ fpqueue.ptr # NULL
    /\ last.op = "pop_max"
    /\ PriorityOf(last.ret) = 2
    /\ fpqueue.count = 4
    /\ fpqueue.elements[0].priority = 2
    /\ fpqueue.elements[1].priority = 1
    /\ fpqueue.elements[2].priority = 1
    /\ fpqueue.elements[3].priority = 0
    /\ fpqueue.elements[4].priority = 0
    /\ fpqueue.elements[4].value = ValueOf(0)


----------------------------------------------------------------------------
\* Deletion, read from the record of the call.

\* Children of n that are present.
ChildrenOf(t, n) == {t.mem[n].child_ptrs[d] : d \in {0, 1}} \ {NULL}

\* C31: in every tree reached by valid inserts and deletes a node with exactly
\* one child is BLACK and the child is a RED leaf, so no assertion of
\* delete_node fails; delete_node of such a node colours the child BLACK, puts
\* it into the node's position and neither rotates nor runs a fixup.
C31_OneChild ==
    /\ fault = ""
    /\ \A n \in Reachable(Tree) :
          Cardinality(ChildrenOf(Tree, n)) = 1 =>
              /\ node_is_black(Tree, n)
              /\ \A c \in ChildrenOf(Tree, n) :
                    node_is_red(Tree, c) /\ ChildrenOf(Tree, c) = {}
    /\ (last.op = "delete" /\ Did("one_child")) =>
          /\ last.trace = <<"one_child">> /\ last.calls = <<>>
          /\ Len(last.writes) >= 3
          /\ LET c == last.writes[1].node
                 w == last.writes[2]
             IN  /\ last.writes[1].at = "word"
                 /\ c \in linked
                 /\ node_is_black(Tree, c) /\ ChildrenOf(Tree, c) = {}
                 /\ w.val = c
                 /\ IF w.at = "root"
                    THEN rootptr = c /\ node_get_parent_ptr(Tree, c) = NULL
                    ELSE /\ w.at = "child" /\ w.node \in linked
                         /\ node_get_parent_ptr(Tree, c) = w.node
                         /\ mem[w.node].child_ptrs[w.dir] = c
                         /\ w.dir = IF KEY_IS_STRICTLY_LESS(mem[w.node].key, last.key)
                                    THEN 1 ELSE 0
                 /\ \A i \in 4..Len(last.writes) : last.writes[i].node = last.node

\* C31 witness: a node below the root whose only child was its left one has
\* been deleted, the child now hanging on the right of the node's parent.
C31_Witness ==
    /\ last.op = "delete" /\ Did("one_child")
    /\ last.writes[2].at = "child" /\ last.writes[2].dir = 1
    /\ mem[last.writes[1].node].key < last.key


\* A caller that inserts and deletes, the tree before each delete kept in
\* last.before.
DeleteObserved(n) ==
    /\ fault = ""
    /\ n \in linked
    /\ Commit(delete_node(Tree, n),
              [op |-> "delete", node |-> n, key |-> mem[n].key,
               ret |-> delete_node_ret(Tree, n), keys |-> KeysIn(Tree), valid |-> TRUE,
               roundtrip |-> FALSE, trace |-> <<>>, climb |-> <<>>, calls |-> <<>>,
               writes |-> <<>>, before |-> [rootptr |-> rootptr, mem |-> mem]])
    /\ linked' = linked \ {n}
    /\ UNCHANGED <<writer, readers>>
    /\ UNCHANGED containers

NextObserved ==
    \/ \E n \in Nodes : Insert(n)
    \/ \E n \in Nodes : DeleteObserved(n)

SpecObserved == Init /\ [][NextObserved]_vars

\* The last call was delete_node of a node with two children.
TwoChildrenDeleted == last.op = "delete" /\ (Did("successor_near") \/ Did("successor_far"))

\* The tree after the successor has been put into the node's place and before
\* any deletion fixup: the tree the fixup was called on, or, no fixup having
\* run, the tree the call left, in which only the colour of the successor's
\* former child and the links of the deleted node have been stored since.
Relinked == IF Did("successor_fixup") THEN last.calls[1] ELSE Tree

\* The node of t with the least key above that of n.
NextInOrder(t, n) ==
    CHOOSE s \in Reachable(t) :
        /\ t.mem[n].key < t.mem[s].key
        /\ \A m \in Reachable(t) : t.mem[n].key < t.mem[m].key => t.mem[s].key <= t.mem[m].key

\* C32: delete_node of a node with two children: before any deletion fixup
\* runs, the in-order successor (the leftmost node of the right subtree) is in
\* the deleted node's former position (same parent and side, or root), has the
\* node's former left child and, unless it was itself the right child, the
\* node's former right child as its children, and has the node's former colour.
C32_SuccessorRelinked ==
    TwoChildrenDeleted =>
        LET pre == last.before
            N   == last.node
            s   == NextInOrder(last.before, last.node)
            P   == node_get_parent_ptr(last.before, last.node)
            L   == left_ptr(last.before, last.node)
            R   == right_ptr(last.before, last.node)
        IN  /\ s = leftmost(pre, R)
            /\ node_get_parent_ptr(Relinked, s) = P
            /\ IF P = NULL THEN Relinked.rootptr = s
               ELSE /\ Relinked.rootptr = pre.rootptr
                    /\ \A d \in {0, 1} :
                          Relinked.mem[P].child_ptrs[d] =
                              IF pre.mem[P].child_ptrs[d] = N THEN s
                              ELSE pre.mem[P].child_ptrs[d]
            /\ left_ptr(Relinked, s) = L
            /\ node_get_parent_ptr(Relinked, L) = s
            /\ IF s = R
               THEN /\ Did("successor_near")
                    /\ right_ptr(Relinked, s) = right_ptr(pre, s)
               ELSE /\ Did("successor_far")
                    /\ right_ptr(Relinked, s) = R
                    /\ node_get_parent_ptr(Relinked, R) = s
                    /\ left_ptr(Relinked, node_get_parent_ptr(pre, s)) = right_ptr(pre, s)
            /\ node_is_black(Relinked, s) <=> node_is_black(pre, N)

\* C32 witness: the BLACK root was deleted and its successor, RED and further
\* down than the root's right child, is the BLACK root now, over both of the
\* former root's children.
C32_Witness ==
    /\ TwoChildrenDeleted /\ Did("successor_far")
    /\ last.before.rootptr = last.node
    /\ node_is_red(last.before, NextInOrder(last.before, last.node))
    /\ rootptr = NextInOrder(last.before, last.node)
    /\ node_is_black(Tree, rootptr)
    /\ right_ptr(Tree, rootptr) = right_ptr(last.before, last.node)


\* The caller that fills and drains, the tree before each delete kept in
\* last.before.
DrainObserved(n) ==
    /\ linked = DeepNodes \/ last.op = "delete"
    /\ Cardinality(linked) > MaxDeep - MaxDrain
    /\ DeleteObserved(n)

NextDeepObserved ==
    \/ Fill
    \/ \E n \in DeepNodes : DrainObserved(n)

SpecDeepObserved == InitDeep /\ [][NextDeepObserved]_vars

\* The calls of delete_fixup made by the last operation, in order.
FixupCalls == SelectSeq(last.calls, LAMBDA c : c.fn = "delete_fixup" /\ c.at = "call")

\* C33: delete_node of a node with two children runs the deletion fixup exactly
\* when the successor was BLACK and had no right child, and runs it at the
\* place the successor left: at the successor's former parent on the left
\* side, or, the successor having been the deleted node's own right child, at
\* the relocated successor on the right side. When the successor had a right
\* child, that child is recoloured BLACK and no fixup runs.
C33_FixupWhereSuccessorWas ==
    TwoChildrenDeleted =>
        LET pre == last.before
            s   == NextInOrder(last.before, last.node)
            c   == right_ptr(last.before, NextInOrder(last.before, last.node))
        IN  /\ Len(FixupCalls) = IF node_is_black(pre, s) /\ c = NULL THEN 1 ELSE 0
            /\ FixupCalls # <<>> =>
                  /\ FixupCalls[1].node = IF s = right_ptr(pre, last.node) THEN s
                                          ELSE node_get_parent_ptr(pre, s)
                  /\ FixupCalls[1].dir = IF s = right_ptr(pre, last.node) THEN 1 ELSE 0
                  /\ FixupCalls[1].mem[FixupCalls[1].node].child_ptrs[FixupCalls[1].dir] = NULL
            /\ c # NULL =>
                  /\ node_is_red(pre, c)
                  /\ node_is_black(Tree, c)
                  /\ Did("successor_child_black")
                  /\ mem[c] = [pre.mem[c] EXCEPT
                                  !.parent_ptr_with_color_bit =
                                      mem[c].parent_ptr_with_color_bit]
            /\ FixupCalls = <<>> => ~Did("rotate") /\ last.climb = <<>>

\* C33 witness: the successor was BLACK, childless and further down than the
\* deleted node's right child, and the fixup ran at its former parent, on the
\* left.
C33_Witness ==
    /\ TwoChildrenDeleted /\ Did("successor_far")
    /\ Len(FixupCalls) = 1
    /\ FixupCalls[1].dir = 0
    /\ FixupCalls[1].node = node_get_parent_ptr(last.before, NextInOrder(last.before, last.node))


----------------------------------------------------------------------------
\* The deletion fixup, read from the record of the call.

\* The calls of rotate_dir made by the last operation, in order.
RotateCalls == SelectSeq(last.calls, LAMBDA c : c.fn = "rotate_dir" /\ c.at = "call")

\* The returns of rotate_dir, in order.
RotateReturns == SelectSeq(last.calls, LAMBDA c : c.fn = "rotate_dir" /\ c.at = "return")

\* The steps the last operation logged after its step named step.
After(step) ==
    LET i == CHOOSE i \in DOMAIN last.trace : last.trace[i] = step
    IN  SubSeq(last.trace, i + 1, Len(last.trace))

\* The ways the fixup ends after the red-sibling case.
Finishes ==
    { <<"rotate", "Case_6", "rotate">>,
      <<"rotate", "Case_5", "rotate", "Case_6", "rotate">>,
      <<"rotate", "Case_4">> }

\* C34: in the deletion fixup, after the red-sibling case (P rotated toward
\* dir, P made RED and the former sibling BLACK) the fixup finishes inside the
\* same invocation, through the distant-nephew-red, the close-nephew-red or
\* the red-parent case, and never moves up to P's parent.
C34_RedSiblingFinishes ==
    (last.op = "delete" /\ Did("Case_3")) =>
        /\ fault = ""
        /\ Len(FixupCalls) = 1
        /\ After("Case_3") \in Finishes
        /\ Len(SelectSeq(last.trace, LAMBDA s : s = "Case_3")) = 1
        /\ LET r == RotateCalls[1]
               P == RotateCalls[1].node
               S == RotateCalls[1].mem[RotateCalls[1].node].child_ptrs[1 - RotateCalls[1].dir]
               G == node_get_parent_ptr(RotateCalls[1], RotateCalls[1].node)
           IN  /\ node_is_red(r, S) /\ node_is_black(r, P)
               /\ \E j \in 1..(Len(last.writes) - 1) :
                     /\ last.writes[j] = [at |-> "word", node |-> P, dir |-> 0, val |-> S]
                     /\ last.writes[j + 1] = [at |-> "word", node |-> S, dir |-> 0, val |-> G + 1]
               /\ node_get_parent_ptr(Tree, S) = G
               /\ node_is_black(Tree, P) /\ node_is_black(Tree, S)
               /\ S \in Reachable(Tree) /\ P \in Subtree(Tree, S, Depth)

\* C34 witness: after the red-sibling case the fixup went on through the
\* close-nephew-red case into the distant-nephew-red case, three rotations in
\* one call.
C34_Witness ==
    /\ last.op = "delete" /\ fault = ""
    /\ Did("Case_3")
    /\ After("Case_3") = <<"rotate", "Case_5", "rotate", "Case_6", "rotate">>


\* C35: whenever the insertion or the deletion fixup calls rotate_dir, the
\* pivot has a child on the side opposite to the direction of the rotation, so
\* the assertion S != NULL of rotate_dir never fails (and that child is the
\* node the rotation returns).
C35_PivotHasOppositeChild ==
    /\ fault # "rotate_dir: assert(S != NULL)"
    /\ Mutated =>
          \A i \in Rotations :
              LET c == last.calls[i]
              IN  /\ c.node # NULL
                  /\ c.mem[c.node].child_ptrs[1 - c.dir] # NULL
                  /\ last.calls[i + 1].fn = "rotate_dir" /\ last.calls[i + 1].at = "return"
                  /\ last.calls[i + 1].node = c.mem[c.node].child_ptrs[1 - c.dir]

\* C35 witness: an insert_node whose fixup rotated twice, first the parent away
\* from the new node and then the grandparent the other way, the new node being
\* the child opposite to the direction both times.
C35_Witness ==
    /\ last.op = "insert" /\ fault = ""
    /\ Len(RotateCalls) = 2
    /\ RotateCalls[1].dir # RotateCalls[2].dir
    /\ RotateCalls[1].mem[RotateCalls[1].node].child_ptrs[1 - RotateCalls[1].dir] = last.node
    /\ RotateCalls[2].mem[RotateCalls[2].node].child_ptrs[1 - RotateCalls[2].dir] = last.node


\* The k-th node above n in t (n itself for k = 0).
RECURSIVE Ancestor(_, _, _)
Ancestor(t, n, k) == IF k = 0 \/ n = NULL THEN n ELSE Ancestor(t, node_get_parent_ptr(t, n), k - 1)

\* The P and the dir of the k-th pass of a fixup loop that was called on the
\* tree c with c.node and c.dir and moved up between the passes.
PassP(c, k) == Ancestor(c, c.node, k - 1)

PassDir(c, k) ==
    IF k = 1 THEN c.dir
    ELSE IF c.mem[PassP(c, k)].child_ptrs[0] = PassP(c, k - 1) THEN 0 ELSE 1

\* C36: in every iteration of the deletion fixup, started from a valid tree,
\* the sibling S is present when it is dereferenced, and in the red-sibling
\* case the close nephew C, which becomes the new sibling, is present and
\* BLACK.
C36_SiblingPresent ==
    /\ fault # "delete_fixup: dereferences S == NULL"
    /\ fault # "delete_fixup: Case_3 dereferences S == NULL"
    /\ (last.op = "delete" /\ FixupCalls # <<>>) =>
          /\ Len(FixupCalls) = 1
          /\ Len(last.climb) >= 1
          /\ \A k \in 1..Len(last.climb) :
                /\ PassP(FixupCalls[1], k) # NULL
                /\ FixupCalls[1].mem[PassP(FixupCalls[1], k)].child_ptrs[
                       1 - PassDir(FixupCalls[1], k)] # NULL
    /\ (last.op = "delete" /\ Did("Case_3")) =>
          LET r == RotateCalls[1]
              S == RotateCalls[1].mem[RotateCalls[1].node].child_ptrs[1 - RotateCalls[1].dir]
          IN  /\ r.mem[S].child_ptrs[r.dir] # NULL
              /\ node_is_black(r, r.mem[S].child_ptrs[r.dir])
              /\ RotateReturns[1].mem[r.node].child_ptrs[1 - r.dir] = r.mem[S].child_ptrs[r.dir]

\* C36 witness: a deletion fixup that went round twice, with a sibling present
\* at both levels.
C36_Witness ==
    /\ last.op = "delete" /\ fault = ""
    /\ Len(FixupCalls) = 1 /\ Len(last.climb) = 2
    /\ PassP(FixupCalls[1], 2) = node_get_parent_ptr(FixupCalls[1], FixupCalls[1].node)
    /\ FixupCalls[1].mem[PassP(FixupCalls[1], 2)].child_ptrs[1 - PassDir(FixupCalls[1], 2)]
           \notin {NULL, FixupCalls[1].node}


----------------------------------------------------------------------------
\* How many rotations a call makes, and when.

\* The places in the trace of the last call where it rotated.
RotateSteps == {i \in DOMAIN last.trace : last.trace[i] = "rotate"}

\* A caller that only inserts, from both ends inward: each insert_node takes
\* the record with the smallest or the one with the largest key not yet
\* linked, which builds trees where a fixup recolours and then rotates twice.
MaxGrow == 8

GrowNodes == {2 * i : i \in 1..MaxGrow}

InitGrow == InitRecords([n \in GrowNodes |-> KeyOf(n)])

Grow(n) ==
    /\ \/ \A m \in GrowNodes \ linked : n <= m
       \/ \A m \in GrowNodes \ linked : n >= m
    /\ Insert(n)

NextGrow == \E n \in GrowNodes : Grow(n)

SpecGrow == InitGrow /\ [][NextGrow]_vars

\* C37: a single insert_node performs at most 2 rotations, and only in the
\* last iteration of the fixup loop: every pass before the one that rotates is
\* a red-uncle recolouring, and after a rotation the loop does not go round
\* again.
C37_InsertRotations ==
    last.op = "insert" =>
        /\ Cardinality(RotateSteps) <= 2
        /\ Len(RotateCalls) = Cardinality(RotateSteps)
        /\ Len(last.climb) = Len(Cases)
        /\ RotateSteps # {} =>
              /\ Cases[Len(Cases)] = "I_black_uncle"
              /\ \A k \in 1..(Len(Cases) - 1) : Cases[k] = "I_red_uncle"
              /\ \A i \in DOMAIN last.trace :
                    last.trace[i] = "rotate" <=> i > Len(Cases)
              /\ \A i \in Rotations, j \in DOMAIN last.calls :
                    j > i => last.calls[j].fn = "rotate_dir"
        /\ Len(RotateCalls) = 2 =>
              /\ RotateCalls[2].node = node_get_parent_ptr(RotateCalls[1], RotateCalls[1].node)
              /\ RotateCalls[2].dir = 1 - RotateCalls[1].dir

\* C37 witness: an insert_node whose fixup recoloured under a red uncle, went
\* round again two levels up and rotated twice there.
C37_Witness ==
    /\ last.op = "insert" /\ fault = ""
    /\ last.trace = <<"I_red_uncle", "I_black_uncle", "rotate", "rotate">>


\* The cases of the deletion fixup the last call went through, in order.
DeleteCases == SelectSeq(last.trace, LAMBDA s : s \in {"D_move_up", "Case_3", "Case_4", "Case_5", "Case_6"})

\* C38: a single delete_node performs at most 3 rotations (the red-sibling
\* case, then the close-nephew-red case, then the distant-nephew-red case, one
\* each), and none while the fixup is still moving up through the black-parent
\* case: every move up is logged before the first rotation.
C38_DeleteRotations ==
    last.op = "delete" =>
        /\ Cardinality(RotateSteps) <= 3
        /\ Len(RotateCalls) = Cardinality(RotateSteps)
        /\ \A i \in RotateSteps :
              /\ i > 1
              /\ last.trace[i - 1] \in {"Case_3", "Case_5", "Case_6"}
        /\ \A i \in DOMAIN last.trace :
              last.trace[i] \in {"Case_3", "Case_5", "Case_6"} =>
                  i < Len(last.trace) /\ last.trace[i + 1] = "rotate"
        /\ \A c \in {"Case_3", "Case_4", "Case_5", "Case_6"} :
              Len(SelectSeq(last.trace, LAMBDA s : s = c)) <= 1
        /\ \A i, j \in DOMAIN last.trace :
              (last.trace[i] = "rotate" /\ last.trace[j] = "D_move_up") => j < i
        /\ \A i, j \in DOMAIN DeleteCases :
              i < j => <<DeleteCases[i], DeleteCases[j]>> \in
                           { <<"D_move_up", "D_move_up">>, <<"D_move_up", "Case_3">>,
                             <<"D_move_up", "Case_4">>, <<"D_move_up", "Case_5">>,
                             <<"D_move_up", "Case_6">>, <<"Case_3", "Case_4">>,
                             <<"Case_3", "Case_5">>, <<"Case_3", "Case_6">>,
                             <<"Case_5", "Case_6">> }
        /\ Len(RotateCalls) = 3 =>
              /\ RotateCalls[3].node = RotateCalls[1].node
              /\ RotateCalls[3].dir = RotateCalls[1].dir
              /\ RotateCalls[2].dir = 1 - RotateCalls[1].dir
              /\ node_get_parent_ptr(RotateCalls[2], RotateCalls[2].node) = RotateCalls[1].node

\* C38 witness: a delete_node that rotated three times, for the red-sibling,
\* the close-nephew-red and the distant-nephew-red case in this order.
C38_Witness ==
    /\ last.op = "delete" /\ fault = ""
    /\ Len(RotateCalls) = 3
    /\ DeleteCases = <<"Case_3", "Case_5", "Case_6">>


----------------------------------------------------------------------------
\* What insert_node makes of the record it is given.  A caller inserts and
\* deletes over MaxReuse records; the record handed to insert_node holds its
\* key and, in its links and its parent/colour word, either what the last
\* node_init or delete_node left there or other pointers and either colour
\* bit.  Beside every call runs the same call on the same tree with the record
\* freshly initialised from zeroed memory: last.fresh is what that one gives.

MaxReuse == 5

ReuseNodes == {2 * i : i \in 1..MaxReuse}

InitReuse == InitRecords([n \in ReuseNodes |-> KeyOf(n)])

\* The tree with the record at n holding g.
Holding(n, g) == [Tree EXCEPT !.mem[n] = g]

\* The record at n after node_init(n, key) on zeroed memory.
FreshRecord(n) ==
    node_init([mem EXCEPT ![n] = [key |-> 0, child_ptrs |-> [d \in {0, 1} |-> NULL],
                                  parent_ptr_with_color_bit |-> NULL]],
              n, mem[n].key)[n]

\* What the record at n may hold when insert_node is called: what it holds
\* now, or its key with links to nothing or to the root, and a word with such
\* a parent and either colour bit.
MayHold(n) ==
    {mem[n]} \cup
    { [key |-> mem[n].key, child_ptrs |-> c, parent_ptr_with_color_bit |-> p + b] :
          c \in [{0, 1} -> {NULL, rootptr}], p \in {NULL, rootptr}, b \in {0, 1} }

\* What a call gives: the tree, the failure if any, and the cases it took.
Outcome(t) == [rootptr |-> t.rootptr, mem |-> t.mem, fault |-> t.fault, trace |-> t.trace]

InsertHolding(n) ==
    /\ fault = ""
    /\ n \notin linked
    /\ contains_key(Tree, mem[n].key) = FALSE
    /\ \E g \in MayHold(n) :
          Commit(insert_node(Holding(n, g), n),
                 [op |-> "insert", node |-> n, key |-> mem[n].key, ret |-> NULL,
                  keys |-> KeysIn(Tree), valid |-> TRUE, roundtrip |-> FALSE,
                  trace |-> <<>>, climb |-> <<>>, calls |-> <<>>, writes |-> <<>>,
                  held |-> [black |-> g.parent_ptr_with_color_bit % 2 = 1,
                            links |-> \/ g.child_ptrs # [d \in {0, 1} |-> NULL]
                                      \/ ClearBit0(g.parent_ptr_with_color_bit) # NULL,
                            returned |-> /\ g = mem[n]
                                         /\ last.op = "delete" /\ last.node = n],
                  fresh |-> Outcome(insert_node(Holding(n, FreshRecord(n)), n))])
    /\ linked' = linked \cup {n}
    /\ UNCHANGED <<writer, readers>>
    /\ UNCHANGED containers

NextReuse ==
    \/ \E n \in ReuseNodes : InsertHolding(n)
    \/ \E n \in ReuseNodes : Delete(n)

SpecReuse == InitReuse /\ [][NextReuse]_vars

\* C39: insert_node overwrites the inserted node's child links, parent
\* reference and colour before it links the node, so the tree it gives does
\* not depend on what the node's links and colour bit held before; a node
\* returned by delete_node, whose colour bit neither delete_node nor node_init
\* resets, can be inserted again and gives the same tree as a freshly
\* initialised node with that key.
C39_InsertIgnoresOldContents ==
    last.op = "insert" =>
        /\ rootptr = last.fresh.rootptr
        /\ mem = last.fresh.mem
        /\ fault = last.fresh.fault
        /\ last.trace = last.fresh.trace
        /\ fault = ""
        /\ last.node \in Reachable(Tree)

\* C39 witness: a BLACK node that delete_node had just returned, its colour
\* bit still set, was inserted again as it was, below the root, and the fixup
\* rotated.
C39_Witness ==
    /\ last.op = "insert" /\ fault = ""
    /\ last.held.returned /\ last.held.black /\ ~last.held.links
    /\ rootptr # last.node
    /\ Did("rotate")

\* A record holding links to other nodes and the BLACK bit was inserted.
C39_ScribbledWitness ==
    /\ last.op = "insert" /\ fault = ""
    /\ last.held.links /\ last.held.black /\ ~last.held.returned
    /\ Did("I_red_uncle")


----------------------------------------------------------------------------
\* The packed parent/colour word on its own.  MaxWord records at even
\* addresses hold any parent address (NULL or the address of a record) and
\* either colour bit, and the accessors are called on them in any order.  last
\* keeps, beside the call, the parent and the colour each record was last
\* given: what two separate fields would hold.

MaxWord == 2

WordNodes == {2 * i : i \in 1..MaxWord}

Addresses == {NULL} \cup WordNodes

Bit(black) == IF black THEN 1 ELSE 0

InitWord ==
    /\ rootptr = NULL
    /\ fault = ""
    /\ linked = {}
    /\ writer = NoMutation
    /\ readers = [r \in Readers |-> IdleReader]
    /\ NoContainers
    /\ \E parent \in [WordNodes -> Addresses], black \in [WordNodes -> BOOLEAN] :
          /\ mem = [n \in WordNodes |->
                       [key |-> KeyOf(n), child_ptrs |-> [d \in {0, 1} |-> NULL],
                        parent_ptr_with_color_bit |-> parent[n] + Bit(black[n])]]
          /\ last = [op |-> "init", node |-> NULL, arg |-> NULL, ret |-> NULL, was |-> 0,
                     parent |-> parent, black |-> black]

\* An accessor that stores has returned with the tree t; parent and black are
\* what the two separate fields hold after it.
Stored(t, op, n, arg, parent, black) ==
    /\ mem' = t.mem
    /\ last' = [op |-> op, node |-> n, arg |-> arg, ret |-> NULL,
                was |-> mem[n].parent_ptr_with_color_bit,
                parent |-> parent, black |-> black]
    /\ UNCHANGED <<rootptr, fault, linked, writer, readers>>
    /\ UNCHANGED containers

\* An accessor that reads has returned ret.
Read(op, n, ret) ==
    /\ last' = [last EXCEPT !.op = op, !.node = n, !.arg = NULL, !.ret = ret,
                            !.was = mem[n].parent_ptr_with_color_bit]
    /\ UNCHANGED <<rootptr, mem, fault, linked, writer, readers>>
    /\ UNCHANGED containers

WordSetParent(n, p) ==
    Stored(node_set_parent_ptr(Tree, n, p), "set_parent_ptr", n, p,
           [last.parent EXCEPT ![n] = p], last.black)

WordSetRed(n) ==
    Stored(node_set_color_to_red(Tree, n), "set_color_to_red", n, NULL,
           last.parent, [last.black EXCEPT ![n] = FALSE])

WordSetBlack(n) ==
    Stored(node_set_color_to_black(Tree, n), "set_color_to_black", n, NULL,
           last.parent, [last.black EXCEPT ![n] = TRUE])

WordSetColorOfOther(n, other) ==
    Stored(node_set_color_to_color_of_other(Tree, n, other), "set_color_to_color_of_other",
           n, other, last.parent, [last.black EXCEPT ![n] = last.black[other]])

WordGetParent(n) == Read("get_parent_ptr", n, node_get_parent_ptr(Tree, n))

WordIsBlack(n) == Read("is_black", n, node_is_black(Tree, n))

WordIsRed(n) == Read("is_red", n, node_is_red(Tree, n))

NextWord ==
    \/ \E n \in WordNodes, p \in Addresses : WordSetParent(n, p)
    \/ \E n \in WordNodes : WordSetRed(n)
    \/ \E n \in WordNodes : WordSetBlack(n)
    \/ \E n, other \in WordNodes : WordSetColorOfOther(n, other)
    \/ \E n \in WordNodes : WordGetParent(n)
    \/ \E n \in WordNodes : WordIsBlack(n)
    \/ \E n \in WordNodes : WordIsRed(n)

SpecWord == InitWord /\ [][NextWord]_vars

\* C40: the packed parent/colour word (parent address plus colour bit, the
\* addresses even): set_parent_ptr changes the parent and keeps the colour
\* bit; set_color_to_red, set_color_to_black and set_color_to_color_of_other
\* change only the colour bit and keep the parent; get_parent_ptr returns the
\* word with bit 0 cleared; so after any sequence of these calls every word
\* holds the parent and the colour its record was last given.
C40_PackedWord ==
    /\ \A n \in WordNodes :
          /\ mem[n].parent_ptr_with_color_bit = last.parent[n] + Bit(last.black[n])
          /\ node_get_parent_ptr(Tree, n) = last.parent[n]
          /\ node_is_black(Tree, n) = last.black[n]
          /\ node_is_red(Tree, n) = ~last.black[n]
          /\ mem[n].key = KeyOf(n) /\ mem[n].child_ptrs = [d \in {0, 1} |-> NULL]
    /\ last.op = "set_parent_ptr" =>
          /\ mem[last.node].parent_ptr_with_color_bit \div 2 = last.arg \div 2
          /\ mem[last.node].parent_ptr_with_color_bit % 2 = last.was % 2
    /\ last.op \in {"set_color_to_red", "set_color_to_black", "set_color_to_color_of_other"} =>
          /\ mem[last.node].parent_ptr_with_color_bit \div 2 = last.was \div 2
          /\ mem[last.node].parent_ptr_with_color_bit % 2 =
                 IF last.op = "set_color_to_red" THEN 0
                 ELSE IF last.op = "set_color_to_black" THEN 1
                 ELSE Bit(last.black[last.arg])
    /\ last.op = "get_parent_ptr" =>
          /\ last.ret = 2 * (mem[last.node].parent_ptr_with_color_bit \div 2)
          /\ last.ret \in Addresses
    /\ last.op = "is_black" => last.ret = (mem[last.node].parent_ptr_with_color_bit % 2 = 1)
    /\ last.op = "is_red" => last.ret = (mem[last.node].parent_ptr_with_color_bit % 2 = 0)
    /\ last.op \in {"get_parent_ptr", "is_black", "is_red"} =>
          mem[last.node].parent_ptr_with_color_bit = last.was

\* C40 witness: set_parent_ptr has given a BLACK record that had a parent
\* another parent, and the record is still BLACK.
C40_Witness ==
    /\ last.op = "set_parent_ptr"
    /\ last.was % 2 = 1 /\ last.was \div 2 # 0
    /\ last.arg # NULL /\ last.arg \div 2 # last.was \div 2
    /\ mem[last.node].parent_ptr_with_color_bit = last.arg + 1

====
